---------------------------- MODULE Spec2Model ----------------------------
(***************************************************************************)
(* Model of the cricket data service (src/unnamed/part_001, lines 1-1239): *)
(* API key rotation, the throttle gate, the Current / Upcoming list        *)
(* caches with their background updater, the series list and the fetches   *)
(* of getMatchDetails.                                                     *)
(*                                                                         *)
(* The service runs on one JavaScript event loop.  Every action below is   *)
(* one run-to-completion segment of a task: the code between two awaits.   *)
(* Time is the value of Date.now() in milliseconds.  It advances only to   *)
(* the next instant at which something can change (a timer falls due, a    *)
(* key block expires, the throttle window closes), and timers fire when    *)
(* they fall due.  An upstream HTTP call ends with a response or an error  *)
(* before more than MaxLag instants have passed.                           *)
(***************************************************************************)
EXTENDS Integers, Sequences, FiniteSets, TLC

\* ----------------------------------------------------------------- bounds
MaxKeys  == 2   \* largest configured key pool
MaxTasks == 3   \* asynchronous operations in flight at once
MaxOps   == 2   \* operations started in one behaviour
MaxDetails == 1 \* getMatchDetails calls in one behaviour, run without other operations
FairOps  == 1   \* operations started in one behaviour of FairSpec
MaxMarks == 3   \* markKeyAsRateLimited calls in one behaviour of KeySpec
MaxDetailCalls == 2   \* getMatchDetails calls in one behaviour of DetailSpec
MaxDetailKeys == 1    \* largest key pool in DetailSpec
MaxRaw   == 45   \* longest raw match list in ClassSpec
MaxSchedCalls == 2   \* startCacheUpdater / stopCacheUpdater calls in SchedSpec
MaxSingleCalls == 2  \* getMatchDetails calls in one behaviour of SingleSpec
MaxSingleSteps == 2  \* steps of five minutes in one behaviour of SingleSpec
MaxBatting == 7  \* batting entries of the inning drawn freely in BattingSpec
MaxMerges == 2   \* merges of the same player lists in MergeSpec
MaxLag   == 0   \* instants that may pass while an upstream call is pending

\* ------------------------------------------------------ program constants
THROTTLE_DELAY == 10000
BLOCK_DURATION == 16 * 60 * 1000
RETRY_WAIT     == 1000
SERIES_CACHE_DURATION == 5 * 60 * 1000
MATCH_DETAILS_CACHE_DURATION == 5 * 60 * 1000
CURRENT_CAP    == 10
UPCOMING_CAP   == 20

\* Date.now() at startup: far from the initial lastApiCallTime = 0.
StartTime == 2 * THROTTLE_DELAY

KeyNames == <<"A", "B", "C", "D">>
NoKey    == "null"
Regions  == {"current", "upcoming"}
Slots    == 1..MaxTasks

\* ------------------------------------------------------ JavaScript values
\* null, undefined, and an object { data: [...] } (a cached list or a payload).
Null      == [tag |-> "null", status |-> "", reason |-> <<>>, data |-> <<>>]
Undefined == [tag |-> "undefined", status |-> "", reason |-> <<>>, data |-> <<>>]
Obj(list) == [tag |-> "obj", status |-> "", reason |-> <<>>, data |-> list]
Truthy(v) == v.tag = "obj"
\* a || b
OrElse(a, b) == IF Truthy(a) THEN a ELSE b
\* Other values a caller of extractMatches can hold: a bare list, an object
\* { matches: [...] }, an object { results: [...] }, an object with none of
\* these fields (data holds what it carries under another name), and a
\* promise not settled yet.
Arr(list)         == [tag |-> "array", status |-> "", reason |-> <<>>, data |-> list]
WithMatches(list) == [tag |-> "matches", status |-> "", reason |-> <<>>, data |-> list]
WithResults(list) == [tag |-> "results", status |-> "", reason |-> <<>>, data |-> list]
OtherObj(list)    == [tag |-> "other", status |-> "", reason |-> <<>>, data |-> list]
Pending           == [tag |-> "pending", status |-> "", reason |-> <<>>, data |-> <<>>]

\* ----------------------------------------------------------------- text
\* A string is a sequence of words; toLowerCase() lowers each word and
\* includes(p) finds the word p.
Lower(w) ==
  CASE w = "Blocked"  -> "blocked"
    [] w = "Limit"    -> "limit"
    [] w = "Exceeded" -> "exceeded"
    [] w = "Kohli"    -> "kohli"
    [] w = "Smith"    -> "smith"
    [] w = "Root"     -> "root"
    [] w = "Gill"     -> "gill"
    [] OTHER          -> w

\* A text is a sequence of words; of the words used here only "limited"
\* contains a pattern without being equal to it.
WordIncludes(w, p) == w = p \/ (w = "limited" /\ p = "limit")

Includes(text, p) == \E i \in 1..Len(text) : WordIncludes(Lower(text[i]), p)

ContainsRateLimitWord(text) ==
  Includes(text, "blocked") \/ Includes(text, "limit") \/ Includes(text, "exceeded")

\* ------------------------------------------------------- upstream outcomes
\* Errors thrown by axios (message, HTTP status of error.response or 0,
\* reason of error.response.data) and errors thrown by the service itself.
ErrorOf(name) ==
  CASE name = "http429" ->
         [message |-> <<"Request", "failed", "with", "status", "code", "429">>,
          status |-> 429, reason |-> <<"hits", "today", "Exceeded", "hits", "Limit">>]
    [] name = "timeout" ->
         [message |-> <<"timeout", "of", "30000ms", "exceeded">>,
          status |-> 0, reason |-> <<>>]
    [] name = "reset" ->
         [message |-> <<"read", "ECONNRESET">>, status |-> 0, reason |-> <<>>]
    [] name = "notConfigured" ->
         [message |-> <<"CRICKET_API_KEY", "is", "not", "configured">>,
          status |-> 0, reason |-> <<>>]
    [] name = "allLimited" ->
         [message |-> <<"All", "API", "keys", "are", "rate", "limited">>,
          status |-> 0, reason |-> <<>>]
    [] name = "ReferenceError" ->
         [message |-> <<"apiKey", "is", "not", "defined">>,
          status |-> 0, reason |-> <<>>]
    [] OTHER ->
         [message |-> <<>>, status |-> 0, reason |-> <<>>]

HttpErrors == {"http429", "timeout", "reset"}

\* Raw matches as the list endpoint returns them.
\* dateTimeGMT and date are times; 0 stands for an absent field.
Match(id, started, ended, score, date) ==
  [id |-> id, matchStarted |-> started, matchEnded |-> ended,
   score |-> score, dateTimeGMT |-> date, date |-> 0]

RawA == << Match(1, TRUE, FALSE, <<>>, 5), Match(2, FALSE, FALSE, <<>>, 9) >>
RawB == << Match(3, TRUE, TRUE, <<>>, 7) >>
RawLists == {RawA, RawB}

Success(list) == [tag |-> "obj", status |-> "success", reason |-> <<>>, data |-> list]
Failure(why)  == [tag |-> "obj", status |-> "failure", reason |-> why, data |-> <<>>]
\* Longer raw lists: n matches whose kinds follow a pattern (not started, live,
\* ended with a score, ended without one) and whose times rise, fall,
\* repeat, or are partly given by date instead of dateTimeGMT.
KindPatterns == {"upcoming", "live", "liveOrEnded", "upcomingOrLive", "allKinds"}
DatePatterns == {"rising", "falling", "repeating", "dateField"}
RawSizes == {0, 1, 2, CURRENT_CAP, CURRENT_CAP + 1, UPCOMING_CAP, UPCOMING_CAP + 1,
             MaxRaw - 20, MaxRaw}

KindAt(kinds, i) ==
  CASE kinds = "upcoming"       -> "upcoming"
    [] kinds = "live"           -> "live"
    [] kinds = "liveOrEnded"    -> IF i % 2 = 1 THEN "live" ELSE "ended"
    [] kinds = "upcomingOrLive" -> IF i % 2 = 1 THEN "upcoming" ELSE "live"
    [] OTHER -> CASE i % 4 = 1 -> "upcoming"
                  [] i % 4 = 2 -> "live"
                  [] i % 4 = 3 -> "ended"
                  [] OTHER     -> "endedNoScore"

TimeAt(dates, i, n) ==
  CASE dates = "rising"    -> i
    [] dates = "falling"   -> n + 1 - i
    [] dates = "repeating" -> (i % 3) + 1
    [] OTHER               -> IF i % 2 = 1 THEN 0 ELSE i

MatchAt(kinds, dates, i, n) ==
  LET kind == KindAt(kinds, i)
  IN  [id |-> i,
       matchStarted |-> kind # "upcoming",
       matchEnded |-> kind \in {"ended", "endedNoScore"},
       score |-> IF kind \in {"live", "ended"} THEN <<1>> ELSE <<>>,
       dateTimeGMT |-> TimeAt(dates, i, n),
       date |-> IF dates = "dateField" THEN n + 1 - i ELSE 0]

RawOf(kinds, dates, n) == [i \in 1..n |-> MatchAt(kinds, dates, i, n)]

LongPayloads ==
  {Success(RawOf(kinds, dates, n)) :
     kinds \in KindPatterns, dates \in DatePatterns, n \in RawSizes}

\* Values of every shape extractMatches distinguishes.
Shapes ==
  {Null, Undefined, Obj(<<>>), Obj(RawA), Arr(RawA), WithMatches(RawB),
   WithResults(RawA), OtherObj(RawA), OtherObj(<<>>), Failure(<<"Invalid", "API", "Key">>)}

Payloads ==
  {Success(l) : l \in RawLists}
    \cup {Failure(<<"hits", "today", "exceeded", "hits", "limit">>),
          Failure(<<"Invalid", "API", "Key">>)}

\* Responses of match_squad: data is a list of teams, each with its players.
Team(players) == [players |-> players]
TwoTeams == << Team(<<1, 2, 3, 4, 5, 6, 7, 8, 9, 10, 11, 12>>), Team(<<21, 22>>) >>
OneTeam  == << Team(<<31>>) >>
SquadPayloads ==
  {Success(TwoTeams), Success(OneTeam),
   Failure(<<"hits", "today", "exceeded", "hits", "limit">>),
   Failure(<<"Invalid", "API", "Key">>)}


\* ------------------------------------------------------- classification
\* Every started match kept, whether it has a score or not.
IsStarted(match) == match.matchStarted = TRUE

IsLiveOrRecent(match) ==
  LET isLive == match.matchStarted = TRUE /\ match.matchEnded = FALSE
      hasScore == Len(match.score) > 0
      isCompletedWithScore ==
        match.matchStarted = TRUE /\ match.matchEnded = TRUE /\ hasScore
  IN  isLive \/ isCompletedWithScore

IsUpcoming(match) == match.matchStarted = FALSE

\* slice without its end.
TakeAll(list, n) == list

\* list.slice(0, n)
Take(list, n) == SubSeq(list, 1, IF Len(list) < n THEN Len(list) ELSE n)

\* new Date(a.dateTimeGMT || a.date || 0)
DateOf(match) ==
  IF match.dateTimeGMT # 0 THEN match.dateTimeGMT ELSE match.date

\* Array.prototype.sort with the comparator dateB - dateA: a stable sort,
\* latest date first.
RECURSIVE InsertByDate(_, _)
InsertByDate(sorted, m) ==
  IF sorted = <<>> THEN <<m>>
  ELSE IF DateOf(Head(sorted)) >= DateOf(m)
       THEN <<Head(sorted)>> \o InsertByDate(Tail(sorted), m)
       ELSE <<m>> \o sorted

RECURSIVE SortByDateDesc(_)
SortByDateDesc(list) ==
  IF list = <<>> THEN <<>>
  ELSE InsertByDate(SortByDateDesc(SubSeq(list, 1, Len(list) - 1)), list[Len(list)])

ClassifyCurrent(allMatches) ==
  Take(SortByDateDesc(SelectSeq(allMatches, IsLiveOrRecent)), CURRENT_CAP)

ClassifyUpcoming(allMatches) ==
  Take(SelectSeq(allMatches, IsUpcoming), UPCOMING_CAP)

Classify(r, allMatches) ==
  IF r = "current" THEN ClassifyCurrent(allMatches) ELSE ClassifyUpcoming(allMatches)

\* ------------------------------------------------------------- key pool
\* keyInfo && keyInfo.blockedUntil && now < keyInfo.blockedUntil
\* (blockedUntil = 0 stands for null)
\* now <= blockedUntil in place of now < blockedUntil
IsBlockedAtExpiry(map, key, t) == map[key] # 0 /\ t <= map[key]

IsBlocked(map, key, t) == map[key] # 0 /\ t < map[key]

\* The scan of getApiKey: idx is currentKeyIndex (0-based), attempts the
\* number of keys already skipped.  Yields the key and the new index.
RECURSIVE ScanKeys(_, _, _, _, _)
ScanKeys(keys, idx, map, t, attempts) ==
  IF attempts < Len(keys)
  THEN IF ~IsBlocked(map, keys[idx + 1], t)
       THEN [key |-> keys[idx + 1], idx |-> idx]
       ELSE ScanKeys(keys, (idx + 1) % Len(keys), map, t, attempts + 1)
  ELSE \* every key is blocked: use the current key anyway
       [key |-> keys[idx + 1], idx |-> idx]

\* getApiKey with the blocked test left out: always the key under the cursor.
GetApiKeyNoSkip(keys, idx, map, t) ==
  IF Len(keys) = 0 THEN [key |-> NoKey, idx |-> idx]
  ELSE [key |-> keys[idx + 1], idx |-> idx]

\* getApiKey scanning from the first key instead of from the cursor.
GetApiKeyFromFirst(keys, idx, map, t) ==
  IF Len(keys) = 0 THEN [key |-> NoKey, idx |-> idx]
  ELSE ScanKeys(keys, 0, map, t, 0)

getApiKey(keys, idx, map, t) ==
  IF Len(keys) = 0 THEN [key |-> NoKey, idx |-> idx]
  ELSE ScanKeys(keys, idx, map, t, 0)

\* markKeyAsRateLimited: yields the new block map and the new index.
markKeyAsRateLimited(keys, idx, map, key, t) ==
  [map |-> [map EXCEPT ![key] = t + BLOCK_DURATION],
   idx |-> (idx + 1) % Len(keys)]

\* some in place of every
SomeKeyBlocked(keys, map, t) ==
  \E i \in 1..Len(keys) : IsBlocked(map, keys[i], t)

\* apiKeys.every(key => blocked); true of the empty pool.
allKeysBlocked(keys, map, t) ==
  \A i \in 1..Len(keys) : IsBlocked(map, keys[i], t)

\* ------------------------------------------------------ error classifier
\* errorMessage = error.message || error.response?.data?.reason || ''
ErrorMessage(err) == IF err.message # <<>> THEN err.message ELSE err.reason

\* The classifier with the 429 status test left out.
IsRateLimitedErrorNoStatus(err) == ContainsRateLimitWord(ErrorMessage(err))

IsRateLimitedError(err) ==
  ContainsRateLimitWord(ErrorMessage(err)) \/ err.status = 429

\* The classifier of a failure payload: the reason text only.
IsRateLimitedReason(reason) == ContainsRateLimitWord(reason)

\* for (attempt = 0; attempt < maxKeyAttempts; attempt++), one key too many
MaxKeyAttemptsOneMore(keys) == Len(keys) + 1

maxKeyAttempts(keys) == Len(keys)

\* ------------------------------------------------------------- throttle
\* throttleApiCall without the wait.
ThrottleNoWait(last, t) == [wait |-> FALSE, wakeAt |-> 0, last |-> t]

\* The synchronous part of throttleApiCall at time t: either a timer is set
\* (wait) or lastApiCallTime becomes t at once.
ThrottleSync(last, t) ==
  LET timeSinceLastCall == t - last
  IN  IF timeSinceLastCall < THROTTLE_DELAY
      THEN [wait |-> TRUE, wakeAt |-> t + (THROTTLE_DELAY - timeSinceLastCall),
            last |-> last]
      ELSE [wait |-> FALSE, wakeAt |-> 0, last |-> t]


\* ------------------------------------------------------- player merge
\* A player object: its properties, "absent" for a property it does not have.
\* str is the text of a player given as a plain string.  The values null and
\* undefined are "null" and "undefined".
PlayerFields == {"str", "name", "playerName", "player", "role", "image", "runs"}
Absent == "absent"
Player(name, role, image, runs) ==
  [str |-> Absent, name |-> name, playerName |-> Absent, player |-> Absent,
   role |-> role, image |-> image, runs |-> runs]
NameOnly(field, text) ==
  [f \in PlayerFields |-> IF f = field THEN text ELSE Absent]

\* a || b on property values
JsOr(a, b) == IF a \in {Absent, "undefined", "null", ""} THEN b ELSE a
\* { ...a, ...b }: the properties of b, undefined ones included, over those of a
Spread(a, b) == [f \in PlayerFields |-> IF b[f] # Absent THEN b[f] ELSE a[f]]

\* The four lists as extractSquadData, extractPlayersFromScorecard,
\* extractPlayersFromScore and match_info give them.
SquadPlayerLists ==
  {<<>>,
   <<Player("Kohli", "Batter", "kohli.png", Absent)>>,
   <<Player("Kohli", "Batter", "kohli.png", Absent),
     Player("Smith", "Bowler", "null", Absent)>>,
   <<Player("", "Bowler", "null", Absent), Player("Root", "Batter", "null", Absent)>>}
ScorecardPlayerLists ==
  {<<>>,
   <<Player("kohli", "Batsman", "null", "50")>>,
   <<Player("Root", "Batsman", "null", "9")>>,
   <<Player("Smith", "Bowler", "null", "3"), Player("smith", "Batsman", "null", "7")>>}
ScorePlayerLists ==
  {<<>>,
   <<Player("Kohli", "Batsman", "null", "52")>>,
   <<Player("Root", "Batsman", "root.png", "undefined"),
     Player("Smith", "Bowler", "null", "4")>>}
MatchDataPlayerLists ==
  {<<>>,
   <<NameOnly("str", "Smith"), NameOnly("str", "Unknown Player")>>,
   <<NameOnly("playerName", "Root"), NameOnly("role", "Umpire")>>,
   <<NameOnly("str", "Gill"), Player("Kohli", "Captain", "other.png", Absent)>>}

\* allPlayersMap: the entries in insertion order.  An entry holds a new
\* object (from = "new") or the object at[from][at] of one of the lists.
Entry(key, val, from, at) == [key |-> key, val |-> val, from |-> from, at |-> at]
MapHas(map, key) == \E i \in 1..Len(map) : map[i].key = key
MapGet(map, key) == map[CHOOSE i \in 1..Len(map) : map[i].key = key]
MapSet(map, e) ==
  IF MapHas(map, e.key)
  THEN [i \in 1..Len(map) |-> IF map[i].key = e.key THEN e ELSE map[i]]
  ELSE Append(map, e)

\* allPlayersMap.set(player.name.toLowerCase(), { ...player })
AddSquadPlayer(m, i) ==
  LET player == m.squad[i]
  IN  IF JsOr(player.name, "") # ""
      THEN [m EXCEPT !.map = MapSet(@, Entry(Lower(player.name), player, "new", 0))]
      ELSE m

\* Lines 986-1001: a scorecard player is put in as it is, or merged over the
\* entry into a new object that keeps the entry's image if it has one.
AddScorecardPlayer(m, i) ==
  LET player == m.scorecard[i]
      key == Lower(player.name)
  IN  IF JsOr(player.name, "") = "" THEN m
      ELSE IF ~MapHas(m.map, key)
           THEN [m EXCEPT !.map = MapSet(@, Entry(key, player, "scorecard", i))]
           ELSE LET existing == MapGet(m.map, key).val
                    merged == [Spread(existing, player) EXCEPT
                                 !.image = JsOr(existing.image, player.image)]
                IN  [m EXCEPT !.map = MapSet(@, Entry(key, merged, "new", 0))]

\* Object.assign(existing, player) in place of { ...existing, ...player }: the
\* object of the entry is written, and with it the list it came from.
AddScorePlayerInPlace(m, i) ==
  LET player == m.score[i]
      key == Lower(player.name)
  IN  IF JsOr(player.name, "") = "" THEN m
      ELSE IF ~MapHas(m.map, key)
           THEN [m EXCEPT !.map = MapSet(@, Entry(key, player, "score", i))]
           ELSE LET e == MapGet(m.map, key)
                    merged == Spread(e.val, player)
                    m1 == [m EXCEPT !.map = MapSet(@, [e EXCEPT !.val = merged])]
                IN  IF e.from = "new" THEN m1
                    ELSE [m1 EXCEPT ![e.from][e.at] = merged]

\* A score player merged under the entry: what the entry has stays.
AddScorePlayerUnder(m, i) ==
  LET player == m.score[i]
      key == Lower(player.name)
  IN  IF JsOr(player.name, "") = "" THEN m
      ELSE IF ~MapHas(m.map, key)
           THEN [m EXCEPT !.map = MapSet(@, Entry(key, player, "score", i))]
           ELSE LET existing == MapGet(m.map, key).val
                IN  [m EXCEPT !.map =
                       MapSet(@, Entry(key, Spread(player, existing), "new", 0))]

\* Lines 1004-1015: a score player is put in as it is, or merged over the
\* entry into a new object.
AddScorePlayer(m, i) ==
  LET player == m.score[i]
      key == Lower(player.name)
  IN  IF JsOr(player.name, "") = "" THEN m
      ELSE IF ~MapHas(m.map, key)
           THEN [m EXCEPT !.map = MapSet(@, Entry(key, player, "score", i))]
           ELSE LET existing == MapGet(m.map, key).val
                IN  [m EXCEPT !.map =
                       MapSet(@, Entry(key, Spread(existing, player), "new", 0))]

\* Lines 1018-1028: a player of match_info, a string or an object, is put in
\* only under a name the map does not have yet.
AddMatchDataPlayer(m, i) ==
  LET player == m.matchData[i]
      isString == player.str # Absent
      playerName == IF isString THEN player.str
                    ELSE JsOr(JsOr(player.name, player.playerName), player.player)
      key == Lower(playerName)
  IN  IF JsOr(playerName, "") = "" \/ playerName = "Unknown Player" THEN m
      ELSE IF MapHas(m.map, key) THEN m
           ELSE IF isString
                THEN [m EXCEPT !.map =
                        MapSet(@, Entry(key, NameOnly("name", playerName), "new", 0))]
                ELSE [m EXCEPT !.map = MapSet(@, Entry(key, player, "matchData", i))]

AddPlayer(m, list, i) ==
  CASE list = "squad"     -> AddSquadPlayer(m, i)
    [] list = "scorecard" -> AddScorecardPlayer(m, i)
    [] list = "score"     -> AddScorePlayer(m, i)
    [] OTHER              -> AddMatchDataPlayer(m, i)

\* list.forEach(...), from its i-th element on
RECURSIVE AddPlayersFrom(_, _, _)
AddPlayersFrom(m, list, i) ==
  IF i > Len(m[list]) THEN m
  ELSE AddPlayersFrom(AddPlayer(m, list, i), list, i + 1)

\* Lines 973-1030: the map filled from the squad, the scorecard, the score and
\* match_info, in this order; the lists as the merge leaves them.
MergePlayers(lists) ==
  LET m0 == [map |-> <<>>, squad |-> lists.squad, scorecard |-> lists.scorecard,
             score |-> lists.score, matchData |-> lists.matchData]
  IN  AddPlayersFrom(AddPlayersFrom(AddPlayersFrom(AddPlayersFrom(
        m0, "squad", 1), "scorecard", 1), "score", 1), "matchData", 1)

\* Array.from(allPlayersMap.values())
AllPlayers(m) == [i \in 1..Len(m.map) |-> m.map[i].val]

NoLists == [squad |-> <<>>, scorecard |-> <<>>, score |-> <<>>, matchData |-> <<>>]
NoMerge == [given |-> FALSE, lists |-> NoLists, original |-> NoLists, results |-> <<>>]

\* ------------------------------------------------------- batting state
\* A batting entry of an inning: the batsman's name (0: the entry has no
\* batsman) and whether the entry has a dismissal text.
BattingEntry(name, out) == [name |-> name, dismissal |-> out]
\* The inning whose i-th entry is of kind kinds[i].
InningOf(kinds) ==
  [i \in 1..Len(kinds) |->
     BattingEntry(IF kinds[i] = "none" THEN 0 ELSE i, kinds[i] = "out")]
EntryKinds == {"out", "in", "none"}
KindLists(n) == UNION {[1..k -> EntryKinds] : k \in 0..n}
\* The innings before the one drawn freely.
EarlierInnings ==
  {<<>>, <<InningOf(<<"out", "out">>)>>, <<InningOf(<<"out", "in">>)>>}
Scorecards ==
  {before \o <<InningOf(kinds)>> :
     before \in EarlierInnings, kinds \in KindLists(MaxBatting)} \cup {<<>>}

\* batting.some(entry => entry.batsman && !entry.dismissal)
HasNotOut(inning) ==
  \E i \in 1..Len(inning) : inning[i].name # 0 /\ ~inning[i].dismissal

\* scorecard.find(...) || scorecard[scorecard.length - 1]: the index of the
\* first inning with a batsman not out, else of the last inning.
CurrentInning(scorecard) ==
  IF \E k \in 1..Len(scorecard) : HasNotOut(scorecard[k])
  THEN CHOOSE k \in 1..Len(scorecard) :
         /\ HasNotOut(scorecard[k])
         /\ \A j \in 1..(k - 1) : ~HasNotOut(scorecard[j])
  ELSE Len(scorecard)

\* array.slice(0, n)
SliceFirst(list, n) == SubSeq(list, 1, IF Len(list) < n THEN Len(list) ELSE n)
\* array.slice(-n)
SliceLast(list, n) ==
  SubSeq(list, IF Len(list) < n THEN 1 ELSE Len(list) - n + 1, Len(list))

\* The dismissed list as the last five entries pushed.
DismissedShownLast(dismissedBatsmen) == SliceLast(dismissedBatsmen, 5)

\* dismissedBatsmen.slice(0, 5) of line 893
DismissedShown(dismissedBatsmen) == SliceFirst(dismissedBatsmen, 5)

\* organizeBattingData (818-898), the two lists of batsmen: the entries with a
\* batsman in the order of the batting array, split by dismissal.
organizeBattingData(scorecard) ==
  IF scorecard = <<>> THEN [tag |-> "null", currentBatsmen |-> <<>>,
                            dismissedBatsmen |-> <<>>, inning |-> 0]
  ELSE LET k == CurrentInning(scorecard)
           batting0 == scorecard[k]
           IsOut(e) == e.name # 0 /\ e.dismissal
           IsIn(e) == e.name # 0 /\ ~e.dismissal
       IN  [tag |-> "obj",
            currentBatsmen |-> SliceFirst(SelectSeq(batting0, IsIn), 2),
            dismissedBatsmen |-> DismissedShown(SelectSeq(batting0, IsOut)),
            inning |-> k]

\* The state of getMatchDetails in src/services/cricketService.js.
RATE_LIMIT_COOLDOWN == 16 * 60 * 1000
SingleCalls == 1..2
\* refetch: the call found an entry older than five minutes and fetches again.
IdleCall == [pc |-> "idle", matchData |-> Null, squadData |-> Null,
             scorecardData |-> Null, refetch |-> FALSE]
NoSingle == [entry |-> [data |-> Null, timestamp |-> 0], lastRateLimitTime |-> 0,
             started |-> 0, calls |-> [c \in SingleCalls |-> IdleCall]]

NoBatting == [given |-> FALSE, scorecard |-> <<>>, done |-> FALSE,
              battingData |-> organizeBattingData(<<>>)]

\* ---------------------------------------------------------------- state
VARIABLES
  now,                 \* Date.now()
  apiKeys,             \* the configured keys, in order
  currentKeyIndex,     \* 0-based cursor into apiKeys
  keyRateLimitMap,     \* key -> blockedUntil (0 = null)
  lastApiCallTime,     \* the throttle's timestamp
  cache,               \* current, upcoming, matchDetails (of one match id),
                       \* lastFetch, isUpdatingCurrent/Upcoming
  seriesCache,         \* data, timestamp
  cacheUpdateInterval, \* TRUE while the periodic timer is set
  initialPending,      \* initial-refresh timeouts not yet fired
  scheduler,           \* the setInterval timers the runtime holds, and the
                       \* startCacheUpdater / stopCacheUpdater calls made
  tasks,               \* the asynchronous operations in flight, by slot
  ops,                 \* operations started so far, getMatchDetails apart
  detailOps,           \* getMatchDetails calls so far
  upstreamCalls,       \* start of the last upstream call (0 = none), and whether it
                       \* came less than THROTTLE_DELAY after the one before
  lastMarked,          \* the key of the last markKeyAsRateLimited, until the next
                       \* getApiKey ("null" = none)
  held,                \* per list region: what it held before its last failed refresh
  allPending,          \* the Promise.all of a getAllMatches call in flight
  single,              \* the match details of the service with one key
                       \* (src/services/cricketService.js)
  batting,             \* a scorecard and the batting state computed from it
  markedAt,            \* per key, when it was last marked rate-limited (0: never)
  merge,               \* the four player lists of a match, as they are now and as
                       \* they were given, and the results of merging them
  ev                   \* the last step taken and what it returned

vars == <<now, apiKeys, currentKeyIndex, keyRateLimitMap, lastApiCallTime, cache,
          seriesCache, cacheUpdateInterval, scheduler, initialPending, tasks, ops,
          detailOps, upstreamCalls, lastMarked, held, allPending, merge, markedAt, batting, single, ev>>

\* What a list region held at some moment: its value and its fetch timestamp.
NoSnap == [ok |-> FALSE, val |-> Null, lastFetch |-> 0]
Snap(val, fetched) == [ok |-> TRUE, val |-> val, lastFetch |-> fetched]

IdleTask ==
  [pc |-> "idle", fn |-> "none", origin |-> "none", apiKey |-> NoKey,
   attempt |-> 0, wakeAt |-> 0, lag |-> 0, lastError |-> "none", calls |-> 0,
   snap |-> NoSnap, expect |-> NoSnap,
   stage |-> "none", outerKey |-> NoKey, matchData |-> Null,
   squadData |-> Null, scorecardData |-> Null, failed |-> {}, gatedAt |-> 0,
   calledAt |-> 0, tried |-> {}]

\* What a getAllMatches call returned: the two values it awaited, how each
\* getter came by its value, and the record returned (or the error thrown).
NoAllResult ==
  [done |-> FALSE, liveMatches |-> Undefined, upcomingMatches |-> Undefined,
   how |-> [current |-> "none", upcoming |-> "none"],
   live |-> <<>>, upcoming |-> <<>>, thrown |-> "none"]

NoEv ==
  [op |-> "init", fn |-> "none", origin |-> "none",
   ret |-> Undefined, thrown |-> "none", outcome |-> "none",
   getter |-> FALSE, getRet |-> Undefined, expect |-> NoSnap,
   used |-> NoKey, acquired |-> NoKey, error |-> "none",
   skipped |-> {}, started |-> FALSE, attempt |-> 0, afterMark |-> NoKey,
   failed |-> {}, infoOk |-> FALSE, all |-> NoAllResult, raw |-> <<>>,
   gap |-> -1, again |-> FALSE]

\* No getAllMatches call is in flight.
NoAll ==
  [active |-> FALSE, current |-> Pending, upcoming |-> Pending,
   how |-> [current |-> "none", upcoming |-> "none"]]

\* The cache object of lines 112-122.
EmptyCache ==
  [current |-> Null, upcoming |-> Null,
   matchDetails |-> [data |-> Null, timestamp |-> 0],
   lastFetch |-> [current |-> 0, upcoming |-> 0],
   isUpdatingCurrent |-> FALSE, isUpdatingUpcoming |-> FALSE]

CacheOf(c, r) == IF r = "current" THEN c.current ELSE c.upcoming
LastFetchOf(c, r) == IF r = "current" THEN c.lastFetch.current ELSE c.lastFetch.upcoming

\* The busy test dropped: a refresh never skips.
IsBusyNever(c, r) == FALSE

\* if (cache.isUpdatingCurrent) / if (cache.isUpdatingUpcoming)
IsBusy(c, r) == IF r = "current" THEN c.isUpdatingCurrent ELSE c.isUpdatingUpcoming

SetUpdating(c, r, b) ==
  IF r = "current" THEN [c EXCEPT !.isUpdatingCurrent = b]
  ELSE [c EXCEPT !.isUpdatingUpcoming = b]

\* The list stored without its fetch timestamp.
StoreListNoStamp(c, r, list, t) ==
  IF r = "current" THEN [c EXCEPT !.current = Obj(list)]
  ELSE [c EXCEPT !.upcoming = Obj(list)]

\* cache.current = { data: list }; cache.lastFetch.current = Date.now()
StoreList(c, r, list, t) ==
  IF r = "current" THEN [c EXCEPT !.current = Obj(list), !.lastFetch.current = t]
  ELSE [c EXCEPT !.upcoming = Obj(list), !.lastFetch.upcoming = t]

DataOf(v) == IF Truthy(v) THEN v.data ELSE <<>>

IdleSlots(ts) == {t \in Slots : ts[t].pc = "idle"}
FreeSlot(ts) == CHOOSE t \in IdleSlots(ts) : \A u \in IdleSlots(ts) : t <= u

\* The shared state a step reads and writes.
World ==
  [cache |-> cache, seriesCache |-> seriesCache, lastApiCallTime |-> lastApiCallTime,
   currentKeyIndex |-> currentKeyIndex, keyRateLimitMap |-> keyRateLimitMap,
   tasks |-> tasks, held |-> held, upstreamCalls |-> upstreamCalls,
   lastMarked |-> lastMarked, allPending |-> allPending, merge |-> merge,
   markedAt |-> markedAt, batting |-> batting, single |-> single,
   skipped |-> {}]

Apply(w, e) ==
  /\ cache' = w.cache
  /\ seriesCache' = w.seriesCache
  /\ lastApiCallTime' = w.lastApiCallTime
  /\ currentKeyIndex' = w.currentKeyIndex
  /\ keyRateLimitMap' = w.keyRateLimitMap
  /\ tasks' = w.tasks
  /\ held' = w.held
  /\ upstreamCalls' = w.upstreamCalls
  /\ lastMarked' = w.lastMarked
  /\ allPending' = w.allPending
  /\ merge' = w.merge
  /\ markedAt' = w.markedAt
  /\ batting' = w.batting
  /\ single' = w.single
  /\ ev' = e

Init ==
  /\ now = StartTime
  /\ \E n \in 0..MaxKeys : apiKeys = SubSeq(KeyNames, 1, n)
  /\ currentKeyIndex = 0
  /\ keyRateLimitMap = [k \in {apiKeys[i] : i \in 1..Len(apiKeys)} |-> 0]
  /\ lastApiCallTime = 0
  /\ cache = EmptyCache
  /\ seriesCache = [data |-> Null, timestamp |-> 0]
  /\ cacheUpdateInterval = TRUE
  /\ initialPending = 1
  /\ scheduler = [intervals |-> 1, calls |-> 0]
  /\ tasks = [t \in Slots |-> IdleTask]
  /\ ops = 0
  /\ detailOps = 0
  /\ upstreamCalls = [last |-> 0, tooClose |-> FALSE,
                      gatedLast |-> 0, gatedTooClose |-> FALSE]
  /\ lastMarked = NoKey
  /\ held = [r \in Regions |-> NoSnap]
  /\ allPending = NoAll
  /\ merge = NoMerge
  /\ batting = NoBatting
  /\ single = NoSingle
  /\ markedAt = [k \in {apiKeys[i] : i \in 1..Len(apiKeys)} |-> 0]
  /\ ev = NoEv


\* ------------------------------------------------- steps on the world
\* apiKey = getApiKey()
Acquire(w) ==
  LET g == getApiKey(apiKeys, w.currentKeyIndex, w.keyRateLimitMap, now)
  IN  [w |-> [w EXCEPT !.currentKeyIndex = g.idx, !.lastMarked = NoKey],
       key |-> g.key, afterMark |-> w.lastMarked]

\* markKeyAsRateLimited(key)
Mark(w, key) ==
  LET m == markKeyAsRateLimited(apiKeys, w.currentKeyIndex, w.keyRateLimitMap, key, now)
  IN  [w EXCEPT !.keyRateLimitMap = m.map, !.currentKeyIndex = m.idx,
                !.markedAt[key] = now,
                !.lastMarked = key]

\* axios.get(...) with the key: the upstream call starts now.
\* The ghost upstreamCalls records when the last call started and whether
\* two calls started less than THROTTLE_DELAY apart, for all calls and for the
\* calls made straight after throttleApiCall() (attempt 0).
IssueCall(w, t, key, attempt) ==
  LET u == w.upstreamCalls
      gated == attempt = 0
  IN  [w EXCEPT !.tasks[t].pc = "http", !.tasks[t].apiKey = key,
                !.tasks[t].attempt = attempt, !.tasks[t].calls = @ + 1,
                !.tasks[t].lag = 0,
                !.tasks[t].gatedAt = IF gated THEN now ELSE @,
                !.tasks[t].calledAt = now,
                !.tasks[t].tried = IF gated THEN {key} ELSE @ \cup {key},
                !.upstreamCalls =
                   [last |-> now,
                    tooClose |-> u.last # 0 /\ now - u.last < THROTTLE_DELAY,
                    gatedLast |-> IF gated THEN now ELSE u.gatedLast,
                    gatedTooClose |->
                       IF gated
                       THEN u.gatedLast # 0 /\ now - u.gatedLast < THROTTLE_DELAY
                       ELSE u.gatedTooClose]]

\* await throttleApiCall(), up to its first suspension.
EnterThrottle(w, t) ==
  LET th == ThrottleSync(w.lastApiCallTime, now)
  IN  [w EXCEPT !.lastApiCallTime = th.last,
                !.tasks[t].pc = IF th.wait THEN "throttleWait" ELSE "throttled",
                !.tasks[t].wakeAt = th.wakeAt]

\* updateCurrentMatchesCache() / updateUpcomingMatchesCache() up to the first
\* await: the busy test, the flag, the throttle.
StartRefresh(w, r, origin, expect) ==
  IF IsBusy(w.cache, r)
  THEN [w EXCEPT !.skipped = @ \cup {r}]
  ELSE LET t == FreeSlot(w.tasks)
           w1 == [w EXCEPT !.cache = SetUpdating(@, r, TRUE),
                           !.tasks[t] = [IdleTask EXCEPT
                                           !.fn = r, !.origin = origin,
                                           !.snap = Snap(CacheOf(w.cache, r),
                                                         LastFetchOf(w.cache, r)),
                                           !.expect = expect]]
       IN  EnterThrottle(w1, t)

\* The flag cleared at the end of the try block instead of in finally.
ClearFlagUnlessThrown(c, r, thrown) ==
  IF thrown = "none" THEN SetUpdating(c, r, FALSE) ELSE c

\* finally { cache.isUpdatingCurrent = false }
FinallyClearFlag(c, r, thrown) == SetUpdating(c, r, FALSE)

\* The getter handing on whatever the refresh returned.
GetterResultRaw(result, thrown) ==
  IF thrown # "none" THEN Obj(<<>>) ELSE result

\* getCurrentMatches / getUpcomingMatches after the on-demand refresh:
\* return result || { data: [] }, and { data: [] } from the catch.
GetterResult(result, thrown) ==
  IF thrown # "none" THEN Obj(<<>>) ELSE OrElse(result, Obj(<<>>))

\* Every object taken for { data: [...] }.
ExtractMatchesAnyObject(data) ==
  IF data.tag = "undefined" THEN [list |-> <<>>, thrown |-> "TypeError"]
  ELSE [list |-> data.data, thrown |-> "none"]

\* extractMatches(data): the list of { data: [...] }, of a bare list, of
\* { matches: [...] } or of { results: [...] }, else [].  For undefined the
\* log line before return [] throws: JSON.stringify(undefined) is undefined
\* and has no substring.
extractMatches(data) ==
  CASE data.tag \in {"obj", "array", "matches", "results"} ->
         [list |-> data.data, thrown |-> "none"]
    [] data.tag = "undefined" -> [list |-> <<>>, thrown |-> "TypeError"]
    [] OTHER -> [list |-> <<>>, thrown |-> "none"]

\* getAllMatches after Promise.all: the two lists, or two empty lists from
\* its catch.
AllResult(liveMatches, upcomingMatches, how) ==
  LET live == extractMatches(liveMatches)
      upcoming == extractMatches(upcomingMatches)
      caught == live.thrown # "none" \/ upcoming.thrown # "none"
  IN  [done |-> TRUE, liveMatches |-> liveMatches, upcomingMatches |-> upcomingMatches,
       how |-> how,
       live |-> IF caught THEN <<>> ELSE live.list,
       upcoming |-> IF caught THEN <<>> ELSE upcoming.list,
       thrown |-> "none"]

\* One of the two promises of getAllMatches settled; with both settled
\* getAllMatches returns.
SettleAll(w, e) ==
  LET p == w.allPending
  IN  IF p.active /\ p.current.tag # "pending" /\ p.upcoming.tag # "pending"
      THEN [w |-> [w EXCEPT !.allPending = NoAll],
            ev |-> [e EXCEPT !.all = AllResult(p.current, p.upcoming, p.how)]]
      ELSE [w |-> w, ev |-> e]

\* The refresh of task t ends: it returns ret or throws; finally runs; the
\* getter that awaited it returns.
FinishRefresh(w, t, ret, thrown, outcome, e) ==
  LET task == w.tasks[t]
      r == task.fn
      failed == outcome \in {"upstreamError", "failurePayload"}
      asked == task.origin \in {"query", "all"}
      getRet == IF asked THEN GetterResult(ret, thrown) ELSE Undefined
      w1 == [w EXCEPT !.cache = FinallyClearFlag(@, r, thrown),
                      !.tasks[t] = IdleTask,
                      !.held[r] = IF failed THEN task.snap ELSE NoSnap]
      e1 == [e EXCEPT !.op = "refreshDone", !.fn = r, !.origin = task.origin,
                      !.ret = ret, !.thrown = thrown, !.outcome = outcome,
                      !.getter = asked, !.getRet = getRet,
                      !.expect = task.expect]
  IN  IF task.origin = "all"
      THEN SettleAll([w1 EXCEPT !.allPending[r] = getRet,
                                !.allPending.how[r] = outcome], e1)
      ELSE [w |-> w1, ev |-> e1]

\* getSeriesList of task t ends.
FinishSeries(w, t, ret, thrown, outcome, e) ==
  [w |-> [w EXCEPT !.tasks[t] = IdleTask],
   ev |-> [e EXCEPT !.op = "seriesDone", !.fn = "series", !.origin = "query",
                    !.ret = ret, !.thrown = thrown, !.outcome = outcome]]

OutcomeOfError(errName) ==
  IF errName \in HttpErrors THEN "upstreamError" ELSE "configError"

\* The catch block of a list refresh.  Its rate-limited branch reads apiKey,
\* which is declared with let inside the try block and is out of scope in
\* the catch block: the read throws a ReferenceError.
CatchRefresh(w, t, errName, e) ==
  LET r == w.tasks[t].fn
  IN  IF IsRateLimitedError(ErrorOf(errName))
      THEN FinishRefresh(w, t, Undefined, "ReferenceError", OutcomeOfError(errName), e)
      ELSE FinishRefresh(w, t, OrElse(CacheOf(w.cache, r), Obj(<<>>)), "none",
                         OutcomeOfError(errName), e)

\* The catch block of getSeriesList.
CatchSeries(w, t, errName, e) ==
  IF Truthy(w.seriesCache.data)
  THEN FinishSeries(w, t, w.seriesCache.data, "none", OutcomeOfError(errName), e)
  ELSE FinishSeries(w, t, Undefined, errName, OutcomeOfError(errName), e)

\* ------------------------------------------------------ getMatchDetails
\* The endpoint fetched after the one of a stage: match_squad only when the
\* match has a squad, matchScorecard only when match_scorecard gave no data.
StageAfter(stage, hasSquad, gotData) ==
  CASE stage = "info"      -> IF hasSquad THEN "squad" ELSE "scorecard"
    [] stage = "squad"     -> "scorecard"
    [] stage = "scorecard" -> IF gotData THEN "store" ELSE "alt"
    [] OTHER               -> "store"

\* getMatchDetails of task t ends.
FinishDetails(w, t, ret, thrown, outcome, e) ==
  [w |-> [w EXCEPT !.tasks[t] = IdleTask],
   ev |-> [e EXCEPT !.op = "detailsDone", !.fn = "details", !.origin = "query",
                    !.ret = ret, !.thrown = thrown, !.outcome = outcome,
                    !.failed = w.tasks[t].failed,
                    !.infoOk = (w.tasks[t].matchData.status = "success")]]

\* extractSquadData(squadResponse.data): the two teams' players, and the first
\* eleven of each as its playing XI.
PlayersOf(teams, i) == IF i <= Len(teams) THEN teams[i].players ELSE <<>>
extractSquadData(squadResponse) ==
  [tag |-> "obj",
   team1Squad |-> PlayersOf(squadResponse.data, 1),
   team2Squad |-> PlayersOf(squadResponse.data, 2),
   team1PlayingXI |-> Take(PlayersOf(squadResponse.data, 1), 11),
   team2PlayingXI |-> Take(PlayersOf(squadResponse.data, 2), 11)]

NoSquadLists ==
  [tag |-> "null", team1Squad |-> <<>>, team2Squad |-> <<>>,
   team1PlayingXI |-> <<>>, team2PlayingXI |-> <<>>]

\* enhancedData: the match_info payload with squadData?.team1Squad || [] and
\* the three other squad lists, and whether a scorecard was fetched.  The
\* fields computed from the scorecard (players, battingData, stats) are not
\* followed; the fields of data are written next to data.
EnhancedData(matchData, squadData, scorecardData) ==
  LET squad == IF Truthy(squadData) THEN squadData ELSE NoSquadLists
  IN  [tag |-> "obj", status |-> matchData.status, reason |-> matchData.reason,
       data |-> matchData.data,
       team1Squad |-> squad.team1Squad, team2Squad |-> squad.team2Squad,
       team1PlayingXI |-> squad.team1PlayingXI,
       team2PlayingXI |-> squad.team2PlayingXI,
       hasScorecard |-> Truthy(scorecardData)]

\* cache.matchDetails.set(matchId, { data, timestamp: Date.now() }); return data.
\* data is enhancedData when match_info succeeded (lines 1065-1072) and the
\* match_info payload itself otherwise (lines 1075-1082).
StoreDetails(w, t, e) ==
  LET task == w.tasks[t]
      ok == task.matchData.status = "success"
      d == IF ok
           THEN EnhancedData(task.matchData, task.squadData, task.scorecardData)
           ELSE task.matchData
  IN  FinishDetails([w EXCEPT !.cache.matchDetails = [data |-> d, timestamp |-> now]],
                    t, d, "none", IF ok THEN "stored" ELSE "failurePayload", e)

\* await throttleApiCall() before the next endpoint, or the store at the end.
EnterStage(w, t, stage, e) ==
  IF stage = "store" THEN StoreDetails(w, t, e)
  ELSE [w |-> EnterThrottle([w EXCEPT !.tasks[t].stage = stage], t), ev |-> e]

\* The catch rethrowing whatever the cache holds.
CatchDetailsRethrow(w, t, errName, e) ==
  FinishDetails(w, t, Undefined, errName, OutcomeOfError(errName), e)

\* The outer catch of getMatchDetails (lines 1083-1094).
CatchDetails(w, t, errName, e) ==
  IF Truthy(w.cache.matchDetails.data)
  THEN FinishDetails(w, t, w.cache.matchDetails.data, "none", OutcomeOfError(errName), e)
  ELSE FinishDetails(w, t, Undefined, errName, OutcomeOfError(errName), e)

\* Every throw of makeApiCall leaving getMatchDetails.
ThrowOutOfDetails(w, t, errName, e) == CatchDetails(w, t, errName, e)

\* makeApiCall threw: out of getMatchDetails for match_info, into the local
\* catch for the other endpoints.
ThrowFromMakeApiCall(w, t, errName, e) ==
  LET stage == w.tasks[t].stage
  IN  IF stage = "info" THEN CatchDetails(w, t, errName, e)
      ELSE EnterStage([w EXCEPT !.tasks[t].failed = @ \cup {stage}], t,
                      StageAfter(stage, FALSE, FALSE), e)

\* makeApiCall returned a response.
ResolveDetails(w, t, p, hasSquad, e) ==
  LET stage == w.tasks[t].stage
      ok == p.status = "success"
      w1 == CASE stage = "info"  -> [w EXCEPT !.tasks[t].matchData = p]
              [] stage = "squad" /\ ok ->
                   \* Array.isArray(squadResponse.data.data)
                   [w EXCEPT !.tasks[t].squadData = extractSquadData(p)]
              [] stage \in {"scorecard", "alt"} /\ ok ->
                   \* scorecardResponse.data && scorecardResponse.data.data
                   [w EXCEPT !.tasks[t].scorecardData = Obj(<<>>)]
              [] OTHER -> [w EXCEPT !.tasks[t].failed = @ \cup {stage}]
  IN  IF stage = "info"
      THEN IF ok THEN EnterStage(w1, t, StageAfter("info", hasSquad, FALSE), e)
           ELSE StoreDetails(w1, t, e)
      ELSE EnterStage(w1, t, StageAfter(stage, FALSE, ok), e)

\* An error leaves the rotation loop.
Catch(w, t, errName, e) ==
  IF w.tasks[t].fn = "series" THEN CatchSeries(w, t, errName, e)
  ELSE IF w.tasks[t].fn = "details" THEN ThrowFromMakeApiCall(w, t, errName, e)
  ELSE CatchRefresh(w, t, errName, e)

\* The rotation loop is entered with a key: its first pass.
StartLoop(w, t, key, e) ==
  IF 0 < maxKeyAttempts(apiKeys)
  THEN [w |-> IssueCall([w EXCEPT !.tasks[t].calls = 0], t, key, 0),
        \* gap: the time since the call this task made after its last throttle
        ev |-> [e EXCEPT !.gap = IF w.tasks[t].gatedAt = 0 THEN -1
                                 ELSE now - w.tasks[t].gatedAt]]
  ELSE Catch(w, t, "failedAllKeys", e)

\* The same without if (!apiKey) throw ...: the loop is entered with null.
AfterThrottleStepNoKeyTest(w, t, e) ==
  LET task == w.tasks[t]
      a == Acquire(w)
  IN  StartLoop(a.w, t, a.key,
                [e EXCEPT !.op = "call", !.fn = task.fn, !.acquired = a.key])

\* After await throttleApiCall(): the key, then the first pass of the loop.
\* The later endpoints of getMatchDetails start from the key of line 623.
AfterThrottleStep(w, t, e) ==
  LET task == w.tasks[t]
      a == Acquire(w)
      e1 == [e EXCEPT !.op = "call", !.fn = task.fn]
  IN  IF task.fn = "details" /\ task.stage # "info"
      THEN StartLoop(w, t, task.outerKey, e1)
      ELSE IF a.key = NoKey
           THEN Catch(a.w, t, "notConfigured", [e1 EXCEPT !.acquired = a.key])
           ELSE StartLoop([a.w EXCEPT !.tasks[t].outerKey =
                                        IF task.fn = "details" THEN a.key ELSE NoKey],
                          t, a.key,
                          [e1 EXCEPT !.acquired = a.key, !.afterMark = a.afterMark])

\* The catch inside the rotation loop.
RejectStep(w, t, errName, e) ==
  LET task == w.tasks[t]
      e1 == [e EXCEPT !.op = "reject", !.fn = task.fn, !.error = errName,
                      !.used = task.apiKey, !.attempt = task.attempt]
  IN  IF IsRateLimitedError(ErrorOf(errName))
      THEN LET a == Acquire(Mark(w, task.apiKey))
           IN  IF a.key = NoKey
               THEN Catch(a.w, t, "allLimited", e1)
               ELSE [w |-> [a.w EXCEPT !.tasks[t].pc = "retryWait",
                                       !.tasks[t].apiKey = a.key,
                                       !.tasks[t].lastError = errName,
                                       !.tasks[t].wakeAt = now + RETRY_WAIT],
                     ev |-> [e1 EXCEPT !.acquired = a.key, !.afterMark = a.afterMark]]
      ELSE Catch(w, t, errName, e1)

\* After the one-second wait: attempt++ and the loop test.
RetryStep(w, t, e) ==
  LET task == w.tasks[t]
      e1 == [e EXCEPT !.op = "retry", !.fn = task.fn, !.attempt = task.attempt + 1]
  IN  IF task.attempt + 1 < maxKeyAttempts(apiKeys)
      THEN [w |-> IssueCall(w, t, task.apiKey, task.attempt + 1),
            \* gap: the time since the attempt before
            \* again: the key was already attempted in this loop
            ev |-> [e1 EXCEPT !.gap = now - task.calledAt,
                              !.again = task.apiKey \in task.tried]]
      ELSE \* if (!response) throw lastError
           Catch([w EXCEPT !.tasks[t].attempt = task.attempt + 1], t, task.lastError, e1)

\* The response stored whatever its status.
ResolveRefreshStoreAlways(w, t, p, e) ==
  LET r == w.tasks[t].fn
      list == Classify(r, p.data)
  IN  FinishRefresh([w EXCEPT !.cache = StoreList(@, r, list, now)],
                    t, Obj(list), "none",
                    IF p.status = "success" THEN "stored" ELSE "failurePayload",
                    [e EXCEPT !.used = w.tasks[t].apiKey,
                              !.attempt = w.tasks[t].attempt])

\* A list refresh receives a response (lines 306-344).
ResolveRefresh(w, t, p, e) ==
  LET task == w.tasks[t]
      r == task.fn
      e1 == [e EXCEPT !.used = task.apiKey, !.attempt = task.attempt,
                      !.raw = p.data]
      kept == OrElse(CacheOf(w.cache, r), Obj(<<>>))
  IN  IF p.status = "success"
      THEN LET list == Classify(r, p.data)
           IN  FinishRefresh([w EXCEPT !.cache = StoreList(@, r, list, now)],
                             t, Obj(list), "none", "stored", e1)
      ELSE IF IsRateLimitedReason(p.reason)
           THEN FinishRefresh(Mark(w, task.apiKey), t, kept, "none", "failurePayload",
                              [e1 EXCEPT !.error = "rateLimitedPayload"])
           ELSE FinishRefresh(w, t, kept, "none", "failurePayload", e1)

\* getSeriesList receives a response (lines 1162-1170).
ResolveSeries(w, t, p, e) ==
  IF p.status = "success"
  THEN FinishSeries([w EXCEPT !.seriesCache = [data |-> p, timestamp |-> now]],
                    t, p, "none", "stored", e)
  ELSE FinishSeries(w, t, p, "none", "failurePayload", e)


\* -------------------------------------------------------------- actions
\* No continuation is waiting in the microtask queue: timers, responses and
\* requests run only then.
Quiet == \A t \in Slots : tasks[t].pc # "throttled"

CanStart(rs) ==
  Cardinality(IdleSlots(tasks)) >= Cardinality({r \in rs : ~IsBusy(cache, r)})

\* Promise.all([updateCurrentMatchesCache(), updateUpcomingMatchesCache()])
\* up to the first suspension of each.
StartBoth(w, origin) ==
  StartRefresh(StartRefresh(w, "current", origin, NoSnap), "upcoming", origin, NoSnap)

Frame == UNCHANGED <<now, apiKeys, cacheUpdateInterval, scheduler, detailOps>>

\* Another operation may start; getMatchDetails may start.
Budget == ops < MaxOps /\ detailOps = 0
DetailBudget == detailOps < MaxDetails /\ ops = 0

\* The setTimeout callback of startCacheUpdater (2 s after startup).
InitialRefresh ==
  /\ Quiet /\ initialPending > 0 /\ Budget /\ CanStart(Regions)
  /\ LET w == StartBoth(World, "background")
     IN  Apply(w, [NoEv EXCEPT !.op = "initial", !.started = TRUE,
                               !.skipped = w.skipped])
  /\ initialPending' = initialPending - 1
  /\ ops' = ops + 1
  /\ Frame

\* The setInterval callback of startCacheUpdater.
TimerTick ==
  /\ Quiet /\ cacheUpdateInterval /\ Budget /\ CanStart(Regions)
  /\ IF allKeysBlocked(apiKeys, keyRateLimitMap, now)
     THEN \* skipped; with no key at all keyInfo is undefined and
          \* keyInfo.blockedUntil throws inside the callback
          Apply(World, [NoEv EXCEPT !.op = "tick", !.started = FALSE,
                          !.thrown = IF Len(apiKeys) = 0 THEN "TypeError" ELSE "none"])
     ELSE LET w == StartBoth(World, "background")
          IN  Apply(w, [NoEv EXCEPT !.op = "tick", !.started = TRUE,
                                    !.skipped = w.skipped])
  /\ ops' = ops + 1
  /\ UNCHANGED initialPending
  /\ Frame

\* refreshCache(), up to its await.
RefreshCache ==
  /\ Quiet /\ Budget /\ CanStart(Regions)
  /\ LET w == StartBoth(World, "background")
     IN  Apply(w, [NoEv EXCEPT !.op = "refreshCache", !.started = TRUE,
                               !.skipped = w.skipped])
  /\ ops' = ops + 1
  /\ UNCHANGED initialPending
  /\ Frame

\* The cached list served only while the region is not being refreshed.
HasMatchesUnlessBusy(c, r) ==
  Truthy(CacheOf(c, r)) /\ Len(CacheOf(c, r).data) > 0 /\ ~IsBusy(c, r)

\* A list of one entry taken for an empty one.
HasMatchesMoreThanOne(c, r) ==
  Truthy(CacheOf(c, r)) /\ Len(CacheOf(c, r).data) > 1

\* cache.current && cache.current.data && Array.isArray(cache.current.data)
\* && cache.current.data.length > 0, and the same for upcoming.
HasMatches(c, r) == Truthy(CacheOf(c, r)) /\ Len(CacheOf(c, r).data) > 0

\* getCurrentMatches() / getUpcomingMatches(), up to the first await.
GetListMatches(r) ==
  /\ Quiet /\ CanStart({r})
  /\ LET c == CacheOf(cache, r)
         w0 == World
         e == [NoEv EXCEPT !.op = "get", !.fn = r, !.origin = "query",
                           !.expect = held[r]]
     IN  IF HasMatches(cache, r)
         THEN Apply(w0, [e EXCEPT !.getter = TRUE, !.getRet = c]) /\ ops' = ops
         ELSE LET w == StartRefresh(w0, r, "query", held[r])
              IN  IF r \in w.skipped
                  THEN \* the refresh returned undefined at once
                       /\ Apply(w, [e EXCEPT !.getter = TRUE, !.skipped = w.skipped,
                                             !.getRet = GetterResult(Undefined, "none")])
                       /\ ops' = ops
                  ELSE /\ Budget
                       /\ Apply(w, [e EXCEPT !.started = TRUE])
                       /\ ops' = ops + 1
  /\ UNCHANGED initialPending
  /\ Frame

\* getCurrentMatches() / getUpcomingMatches() called by getAllMatches, up to
\* the first await: the value returned at once, or Pending.
GetterStart(w, r) ==
  LET c == CacheOf(w.cache, r)
  IN  IF HasMatches(w.cache, r)
      THEN [w |-> w, ret |-> c, how |-> "cache"]
      ELSE LET w1 == StartRefresh(w, r, "all", w.held[r])
           IN  IF r \in w1.skipped
               THEN [w |-> w1, ret |-> GetterResult(Undefined, "none"),
                     how |-> "skipped"]
               ELSE [w |-> w1, ret |-> Pending, how |-> "pending"]

\* getAllMatches(), up to its await (or to its return when neither getter
\* had to wait).
GetAllMatches ==
  /\ Quiet /\ Budget /\ ~allPending.active
  /\ CanStart({r \in Regions : ~(Truthy(CacheOf(cache, r))
                                   /\ Len(CacheOf(cache, r).data) > 0)})
  /\ LET g1 == GetterStart(World, "current")
         g2 == GetterStart(g1.w, "upcoming")
         w  == [g2.w EXCEPT !.allPending =
                  [active |-> TRUE, current |-> g1.ret, upcoming |-> g2.ret,
                   how |-> [current |-> g1.how, upcoming |-> g2.how]]]
         o  == SettleAll(w, [NoEv EXCEPT !.op = "getAllMatches",
                                         !.skipped = w.skipped])
     IN  Apply(o.w, o.ev)
  /\ ops' = ops + 1
  /\ UNCHANGED initialPending
  /\ Frame

\* extractMatches applied by getAllMatches to two values of any shape.
AllMatchesOf ==
  /\ ops = 0 /\ detailOps = 0 /\ ev.op = "init"
  /\ \E liveMatches \in Shapes, upcomingMatches \in Shapes :
       ev' = [NoEv EXCEPT !.op = "allMatchesOf",
                          !.all = AllResult(liveMatches, upcomingMatches,
                                            [current |-> "given", upcoming |-> "given"])]
  /\ UNCHANGED <<now, apiKeys, currentKeyIndex, keyRateLimitMap, lastApiCallTime,
                 cache, seriesCache, cacheUpdateInterval, scheduler, initialPending, tasks,
                 ops, detailOps, upstreamCalls, lastMarked, held, allPending, merge,
                 markedAt, batting, single>>

\* getSeriesList(), up to the first await.
GetSeriesList ==
  /\ Quiet /\ Budget /\ IdleSlots(tasks) # {}
  /\ LET e == [NoEv EXCEPT !.op = "series", !.fn = "series", !.origin = "query"]
     IN  IF /\ Truthy(seriesCache.data) /\ seriesCache.timestamp # 0
            /\ now - seriesCache.timestamp < SERIES_CACHE_DURATION
         THEN Apply(World, [e EXCEPT !.op = "seriesDone", !.ret = seriesCache.data,
                                     !.outcome = "cached"])
         ELSE LET t == FreeSlot(tasks)
                  w == [World EXCEPT !.tasks[t] =
                          [IdleTask EXCEPT !.fn = "series", !.origin = "query"]]
              IN  Apply(EnterThrottle(w, t), [e EXCEPT !.started = TRUE])
  /\ ops' = ops + 1
  /\ UNCHANGED initialPending
  /\ Frame

\* An expired entry taken for no entry.
CachedDetailsFreshOnly(c, t) ==
  [hit |-> Truthy(c.matchDetails.data)
             /\ t - c.matchDetails.timestamp < MATCH_DETAILS_CACHE_DURATION,
   fresh |-> TRUE, data |-> c.matchDetails.data]

\* const cached = cache.matchDetails.get(matchId), and the two tests on it
\* (lines 608-618): a hit whether fresh or expired.
CachedDetails(c, t) ==
  LET cached == c.matchDetails
      fresh == Truthy(cached.data)
                 /\ t - cached.timestamp < MATCH_DETAILS_CACHE_DURATION
  IN  [hit |-> fresh \/ Truthy(cached.data), fresh |-> fresh, data |-> cached.data]

\* getMatchDetails(matchId), up to the first await.
DetailsCall ==
  /\ Quiet /\ IdleSlots(tasks) # {}
  /\ LET e == [NoEv EXCEPT !.op = "details", !.fn = "details", !.origin = "query"]
         cached == CachedDetails(cache, now)
     IN  IF cached.hit
         THEN Apply(World, [e EXCEPT !.op = "detailsDone",
                                     !.ret = cached.data,
                                     !.outcome = IF cached.fresh THEN "cached"
                                                 ELSE "stale"])
         ELSE LET t == FreeSlot(tasks)
                  w == [World EXCEPT !.tasks[t] =
                          [IdleTask EXCEPT !.fn = "details", !.origin = "query",
                                           !.stage = "info"]]
              IN  Apply(EnterThrottle(w, t), [e EXCEPT !.started = TRUE])
  /\ detailOps' = detailOps + 1
  /\ UNCHANGED <<now, apiKeys, cacheUpdateInterval, scheduler, initialPending, ops>>

GetMatchDetails == DetailBudget /\ DetailsCall

\* clearCache() clearing the blocks of the keys as well.
ClearCacheAndBlocks ==
  /\ Quiet /\ Budget
  /\ Apply([World EXCEPT
              !.cache = [@ EXCEPT !.current = Null, !.upcoming = Null,
                                  !.matchDetails = [data |-> Null, timestamp |-> 0],
                                  !.lastFetch = [current |-> 0, upcoming |-> 0]],
              !.keyRateLimitMap = [k \in DOMAIN @ |-> 0],
              !.held = [r \in Regions |-> NoSnap],
              !.tasks = [t \in Slots |-> [@[t] EXCEPT !.snap = NoSnap,
                                                      !.expect = NoSnap]]],
           [NoEv EXCEPT !.op = "clearCache"])
  /\ ops' = ops + 1
  /\ UNCHANGED initialPending
  /\ Frame

\* clearCache(): the list regions, the match details and the timestamps; the
\* flags stay.
ClearCache ==
  /\ Quiet /\ Budget
  /\ Apply([World EXCEPT
              !.cache = [@ EXCEPT !.current = Null, !.upcoming = Null,
                                  !.matchDetails = [data |-> Null, timestamp |-> 0],
                                  !.lastFetch = [current |-> 0, upcoming |-> 0]],
              !.held = [r \in Regions |-> NoSnap],
              !.tasks = [t \in Slots |-> [@[t] EXCEPT !.snap = NoSnap,
                                                      !.expect = NoSnap]]],
           [NoEv EXCEPT !.op = "clearCache"])
  /\ ops' = ops + 1
  /\ UNCHANGED initialPending
  /\ Frame

\* The throttle's timer fires: lastApiCallTime = Date.now().
ThrottleWake(t) ==
  /\ Quiet /\ tasks[t].pc = "throttleWait" /\ now >= tasks[t].wakeAt
  /\ Apply([World EXCEPT !.lastApiCallTime = now, !.tasks[t].pc = "throttled"],
           [NoEv EXCEPT !.op = "throttleWake"])
  /\ UNCHANGED <<initialPending, ops>>
  /\ Frame

\* The continuation after await throttleApiCall(); continuations run in the
\* order their tasks were started.
AfterThrottle(t) ==
  /\ tasks[t].pc = "throttled"
  /\ \A u \in Slots : tasks[u].pc = "throttled" => t <= u
  /\ LET o == AfterThrottleStep(World, t, NoEv) IN Apply(o.w, o.ev)
  /\ UNCHANGED <<initialPending, ops>>
  /\ Frame

\* What the endpoint called by a task can answer.
PayloadsOf(task) ==
  IF task.fn = "details" /\ task.stage = "squad" THEN SquadPayloads ELSE Payloads

\* The upstream answers with one of the payloads.
HttpResolveFrom(t, payloads) ==
  /\ Quiet /\ tasks[t].pc = "http"
  /\ \E p \in payloads, hasSquad \in BOOLEAN :
       LET o == IF tasks[t].fn = "series" THEN ResolveSeries(World, t, p, NoEv)
                ELSE IF tasks[t].fn = "details"
                     THEN ResolveDetails(World, t, p, hasSquad, NoEv)
                     ELSE ResolveRefresh(World, t, p, NoEv)
       IN  Apply(o.w, o.ev)
  /\ UNCHANGED <<initialPending, ops>>
  /\ Frame

HttpResolve(t) == HttpResolveFrom(t, PayloadsOf(tasks[t]))

\* The upstream call throws: an HTTP error status, a timeout, a reset.
HttpReject(t) ==
  /\ Quiet /\ tasks[t].pc = "http"
  /\ \E errName \in HttpErrors :
       LET o == RejectStep(World, t, errName, NoEv) IN Apply(o.w, o.ev)
  /\ UNCHANGED <<initialPending, ops>>
  /\ Frame

\* The one-second timer before the next key is tried fires.
RetryWake(t) ==
  /\ Quiet /\ tasks[t].pc = "retryWait" /\ now >= tasks[t].wakeAt
  /\ LET o == RetryStep(World, t, NoEv) IN Apply(o.w, o.ev)
  /\ UNCHANGED <<initialPending, ops>>
  /\ Frame

Sleeping(t) == tasks[t].pc \in {"throttleWait", "retryWait"}

\* The instants at which something can change.
Instants ==
  {tasks[t].wakeAt : t \in {u \in Slots : Sleeping(u)}}
    \cup {keyRateLimitMap[k] : k \in DOMAIN keyRateLimitMap}
    \cup {lastApiCallTime + THROTTLE_DELAY}
    \cup (IF seriesCache.timestamp # 0
          THEN {seriesCache.timestamp + SERIES_CACHE_DURATION} ELSE {})
    \cup (IF Truthy(cache.matchDetails.data)
          THEN {cache.matchDetails.timestamp + MATCH_DETAILS_CACHE_DURATION}
          ELSE {})

\* Time passes up to the next such instant; a timer that is due fires first,
\* and an upstream call ends before MaxLag + 1 instants have passed.  Time is
\* not followed further once no operation is left to run (more = FALSE).
AdvanceWhile(more) ==
  /\ Quiet
  /\ more \/ \E t \in Slots : tasks[t].pc # "idle"
  /\ \A t \in Slots : Sleeping(t) => now < tasks[t].wakeAt
  /\ \E next \in Instants :
       /\ next > now
       /\ \A i \in Instants : i > now => next <= i
       /\ now' = next
  /\ \A t \in Slots : tasks[t].pc = "http" => tasks[t].lag < MaxLag
  /\ tasks' = [t \in Slots |->
                IF tasks[t].pc = "http" THEN [tasks[t] EXCEPT !.lag = @ + 1]
                ELSE tasks[t]]
  /\ ev' = [NoEv EXCEPT !.op = "advance"]
  /\ UNCHANGED <<apiKeys, currentKeyIndex, keyRateLimitMap, lastApiCallTime, cache,
                 seriesCache, cacheUpdateInterval, scheduler, initialPending, ops,
                 detailOps, upstreamCalls, lastMarked, held, allPending, merge,
                 markedAt, batting, single>>

Advance == AdvanceWhile(Budget \/ DetailBudget)

Next ==
  \/ InitialRefresh
  \/ TimerTick
  \/ RefreshCache
  \/ \E r \in Regions : GetListMatches(r)
  \/ GetSeriesList
  \/ GetMatchDetails
  \/ ClearCache
  \/ \E t \in Slots : ThrottleWake(t)
  \/ \E t \in Slots : AfterThrottle(t)
  \/ \E t \in Slots : HttpResolve(t)
  \/ \E t \in Slots : HttpReject(t)
  \/ \E t \in Slots : RetryWake(t)
  \/ Advance

Spec == Init /\ [][Next]_vars


\* The timers fire, the continuations run, every upstream call ends (its
\* 30 s timeout), and time passes.
Fairness ==
  /\ WF_vars(\E t \in Slots : ThrottleWake(t))
  /\ WF_vars(\E t \in Slots : AfterThrottle(t))
  /\ WF_vars(\E t \in Slots : HttpResolve(t) \/ HttpReject(t))
  /\ WF_vars(\E t \in Slots : RetryWake(t))
  /\ WF_vars(Advance)

\* The behaviours followed for the liveness properties start at most FairOps
\* operations and one getMatchDetails.
FairNext == Next /\ ops' <= FairOps

FairSpec == Init /\ [][FairNext]_vars /\ Fairness

\* ------------------------------------------------- getMatchDetails alone
\* Up to MaxDetailCalls calls of getMatchDetails for one match id, which may
\* overlap, and nothing else: the calls that find an entry, fresh or expired,
\* and the calls that are in flight together.
MoreDetails == detailOps < MaxDetailCalls /\ ops = 0

DetailsQuery == MoreDetails /\ DetailsCall

DetailsAdvance == AdvanceWhile(MoreDetails)

DetailNext ==
  \/ DetailsQuery
  \/ \E t \in Slots : ThrottleWake(t)
  \/ \E t \in Slots : AfterThrottle(t)
  \/ \E t \in Slots : HttpResolve(t)
  \/ \E t \in Slots : HttpReject(t)
  \/ \E t \in Slots : RetryWake(t)
  \/ DetailsAdvance

\* The pool has at most MaxDetailKeys keys.
DetailInit == Init /\ Len(apiKeys) <= MaxDetailKeys

DetailSpec == DetailInit /\ [][DetailNext]_vars

\* --------------------------------------------------- getAllMatches alone
\* getAllMatches next to the background refresh and clearCache.
AllNext ==
  \/ GetAllMatches
  \/ AllMatchesOf
  \/ RefreshCache
  \/ ClearCache
  \/ \E t \in Slots : ThrottleWake(t)
  \/ \E t \in Slots : AfterThrottle(t)
  \/ \E t \in Slots : HttpResolve(t)
  \/ \E t \in Slots : HttpReject(t)
  \/ \E t \in Slots : RetryWake(t)
  \/ Advance

AllSpec == Init /\ [][AllNext]_vars

\* ------------------------------------------- one on-demand refresh alone
\* One getCurrentMatches() or getUpcomingMatches() on the empty cache, whose
\* refresh receives one of the longer raw lists.
LongResolve(t) == HttpResolveFrom(t, LongPayloads)

ClassNext ==
  /\ \/ \E r \in Regions : GetListMatches(r)
     \/ \E t \in Slots : AfterThrottle(t)
     \/ \E t \in Slots : LongResolve(t)
     \/ \E t \in Slots : HttpReject(t)
     \/ \E t \in Slots : RetryWake(t)
     \/ Advance
  /\ ops' <= FairOps

ClassSpec == Init /\ [][ClassNext]_vars

\* ------------------------------------- the operations on the pool itself
\* initializeApiKeys() after keysInitialized = false, with CRICKET_API_KEY as
\* it was at startup: nothing for an empty variable; otherwise apiKeys is
\* built again from the same text and every key gets { blockedUntil: null }.
initializeApiKeys(keys, map) ==
  IF Len(keys) = 0 THEN [keys |-> keys, map |-> map]
  ELSE [keys |-> keys,
        map |-> [k \in DOMAIN map |->
                   IF \E i \in 1..Len(keys) : keys[i] = k THEN 0 ELSE map[k]]]

\* reinitializeApiKeys()
ReinitializeApiKeys ==
  /\ Quiet /\ Budget
  /\ LET init == initializeApiKeys(apiKeys, keyRateLimitMap)
     IN  /\ apiKeys' = init.keys
         /\ Apply([World EXCEPT !.keyRateLimitMap = init.map],
                  [NoEv EXCEPT !.op = "reinitialize"])
  /\ ops' = ops + 1
  /\ UNCHANGED <<now, cacheUpdateInterval, scheduler, detailOps, initialPending>>

\* getCacheStatus(): reads the cache, the pool and the throttle.
GetCacheStatus ==
  /\ Quiet /\ Budget
  /\ Apply(World, [NoEv EXCEPT !.op = "status"])
  /\ ops' = ops + 1
  /\ UNCHANGED initialPending
  /\ Frame

PoolNext == Next \/ ReinitializeApiKeys \/ GetCacheStatus

PoolSpec == Init /\ [][PoolNext]_vars

\* ----------------------------------- starting and stopping the scheduler
\* startCacheUpdater(): nothing when cacheUpdateInterval is set; otherwise
\* one setTimeout for the initial refresh and one setInterval, whose handle
\* is kept in cacheUpdateInterval.
startCacheUpdater(handle, pending, sched) ==
  IF handle
  THEN [handle |-> handle, pending |-> pending, intervals |-> sched.intervals]
  ELSE [handle |-> TRUE, pending |-> pending + 1,
        intervals |-> sched.intervals + 1]

\* stopCacheUpdater(): clearInterval(cacheUpdateInterval) and
\* cacheUpdateInterval = null when it is set; the timeout of the initial
\* refresh has no handle and stays.
stopCacheUpdater(handle, pending, sched) ==
  IF handle
  THEN [handle |-> FALSE, pending |-> pending, intervals |-> sched.intervals - 1]
  ELSE [handle |-> handle, pending |-> pending, intervals |-> sched.intervals]

SchedulerCall(o, name) ==
  /\ Quiet /\ scheduler.calls < MaxSchedCalls
  /\ cacheUpdateInterval' = o.handle
  /\ initialPending' = o.pending
  /\ scheduler' = [intervals |-> o.intervals, calls |-> scheduler.calls + 1]
  /\ Apply(World, [NoEv EXCEPT !.op = name])
  /\ UNCHANGED <<now, apiKeys, ops, detailOps>>

StartCacheUpdater ==
  SchedulerCall(startCacheUpdater(cacheUpdateInterval, initialPending, scheduler),
                "startCacheUpdater")

StopCacheUpdater ==
  SchedulerCall(stopCacheUpdater(cacheUpdateInterval, initialPending, scheduler),
                "stopCacheUpdater")

\* The calls on the scheduler, its timers, and what the refreshes they
\* start do; at most FairOps refreshes are started.
SchedNext ==
  /\ \/ StartCacheUpdater
     \/ StopCacheUpdater
     \/ InitialRefresh
     \/ TimerTick
     \/ \E t \in Slots : ThrottleWake(t)
     \/ \E t \in Slots : AfterThrottle(t)
     \/ \E t \in Slots : HttpResolve(t)
     \/ \E t \in Slots : HttpReject(t)
     \/ \E t \in Slots : RetryWake(t)
     \/ Advance
  /\ ops' <= FairOps

SchedSpec == Init /\ [][SchedNext]_vars

\* ------------------------- getMatchDetails of the service with one key
\* src/services/cricketService.js: one key read from the environment, no
\* throttle, no rotation; a cooldown of 16 minutes after a list refresh saw
\* a rate limit.
\* getMatchDetails of call c ends.
SingleFinish(s, c, ret, thrown, outcome) ==
  [s |-> [s EXCEPT !.calls[c] = IdleCall],
   ev |-> [NoEv EXCEPT !.op = "singleDone", !.fn = "details", !.ret = ret,
                       !.thrown = thrown, !.outcome = outcome]]

\* The catch block (lines 820-831): the entry's value if there is an entry.
SingleCatch(s, c, errName, outcome) ==
  IF Truthy(s.entry.data)
  THEN SingleFinish(s, c, s.entry.data, "none", outcome)
  ELSE SingleFinish(s, c, Undefined, errName, outcome)

\* cache.matchDetails.set(matchId, { data, timestamp }) and return data:
\* enhancedData (lines 804-810) or the match_info payload itself (814-819).
SingleStore(s, c, t) ==
  LET call == s.calls[c]
      ok == call.matchData.status = "success"
      d == IF ok THEN EnhancedData(call.matchData, call.squadData, call.scorecardData)
           ELSE call.matchData
  IN  SingleFinish([s EXCEPT !.entry = [data |-> d, timestamp |-> t]], c, d, "none",
                   IF ok THEN "stored" ELSE "failurePayload")

\* The next await of call c, or the store.
SingleEnter(s, c, stage, t) ==
  IF stage = "store" THEN SingleStore(s, c, t)
  ELSE [s |-> [s EXCEPT !.calls[c].pc = stage], ev |-> [NoEv EXCEPT !.op = "singleStage"]]

\* getMatchDetails(matchId) up to its first await (lines 374-401).
SingleStart(s, c, hasKey, t) ==
  LET cached == s.entry
      s1 == [s EXCEPT !.started = @ + 1]
  IN  IF Truthy(cached.data) /\ t - cached.timestamp < MATCH_DETAILS_CACHE_DURATION
      THEN SingleFinish(s1, c, cached.data, "none", "cached")
      ELSE IF ~hasKey
           THEN SingleCatch(s1, c, "notConfigured", "configError")
           ELSE IF s.lastRateLimitTime # 0
                   /\ t - s.lastRateLimitTime < RATE_LIMIT_COOLDOWN
                THEN IF Truthy(cached.data)
                     THEN SingleFinish(s1, c, cached.data, "none", "cooldown")
                     ELSE SingleCatch(s1, c, "cooldown", "cooldown")
                ELSE [s |-> [s1 EXCEPT !.calls[c] = [IdleCall EXCEPT !.pc = "info",
                                                 !.refetch = Truthy(cached.data)]],
                      ev |-> [NoEv EXCEPT !.op = "singleFetch", !.started = TRUE]]

\* A response arrives (lines 408-411, 452-504).
SingleResolved(s, c, p, hasSquad, t) ==
  LET stage == s.calls[c].pc
      ok == p.status = "success"
      s1 == CASE stage = "info" -> [s EXCEPT !.calls[c].matchData = p]
              [] stage = "squad" /\ ok -> [s EXCEPT !.calls[c].squadData = extractSquadData(p)]
              [] stage \in {"scorecard", "alt"} /\ ok ->
                   [s EXCEPT !.calls[c].scorecardData = Obj(<<>>)]
              [] OTHER -> s
  IN  IF stage = "info"
      THEN IF ok THEN SingleEnter(s1, c, StageAfter("info", hasSquad, FALSE), t)
           ELSE SingleStore(s1, c, t)
      ELSE SingleEnter(s1, c, StageAfter(stage, FALSE, ok), t)

\* A request fails: out of getMatchDetails for match_info, into the local
\* catch for the other endpoints.
SingleRejected(s, c, errName, t) ==
  LET stage == s.calls[c].pc
  IN  IF stage = "info" THEN SingleCatch(s, c, errName, "upstreamError")
      ELSE SingleEnter(s, c, StageAfter(stage, FALSE, FALSE), t)

SingleFrame ==
  UNCHANGED <<now, apiKeys, cacheUpdateInterval, scheduler, initialPending, ops, detailOps>>

SingleGetMatchDetails(c) ==
  /\ single.calls[c].pc = "idle" /\ single.started < MaxSingleCalls
  /\ LET o == SingleStart(single, c, Len(apiKeys) > 0, now)
     IN  Apply([World EXCEPT !.single = o.s], o.ev)
  /\ SingleFrame

SingleResolve(c) ==
  /\ single.calls[c].pc # "idle"
  /\ \E hasSquad \in BOOLEAN :
     \E p \in IF single.calls[c].pc = "squad" THEN SquadPayloads ELSE Payloads :
       LET o == SingleResolved(single, c, p, hasSquad, now)
       IN  Apply([World EXCEPT !.single = o.s], o.ev)
  /\ SingleFrame

SingleReject(c) ==
  /\ single.calls[c].pc # "idle"
  /\ \E errName \in HttpErrors :
       LET o == SingleRejected(single, c, errName, now)
       IN  Apply([World EXCEPT !.single = o.s], o.ev)
  /\ SingleFrame

\* A list refresh sees a rate limit: lastRateLimitTime = Date.now()
\* (lines 184, 201, 259, 275).
SingleRateLimitSeen ==
  /\ single.lastRateLimitTime = 0 /\ Len(apiKeys) > 0
  /\ Apply([World EXCEPT !.single.lastRateLimitTime = now],
           [NoEv EXCEPT !.op = "singleRateLimit"])
  /\ SingleFrame

\* Five minutes pass.
SingleAdvance ==
  /\ now < StartTime + MaxSingleSteps * MATCH_DETAILS_CACHE_DURATION
  /\ now' = now + MATCH_DETAILS_CACHE_DURATION
  /\ ev' = [NoEv EXCEPT !.op = "advance"]
  /\ UNCHANGED <<apiKeys, currentKeyIndex, keyRateLimitMap, lastApiCallTime, cache,
                 seriesCache, cacheUpdateInterval, scheduler, initialPending, tasks, ops,
                 detailOps, upstreamCalls, lastMarked, held, allPending, merge,
                 markedAt, batting, single>>

SingleNext ==
  \/ \E c \in SingleCalls : SingleGetMatchDetails(c)
  \/ \E c \in SingleCalls : SingleResolve(c)
  \/ \E c \in SingleCalls : SingleReject(c)
  \/ SingleRateLimitSeen
  \/ SingleAdvance

SingleSpec == Init /\ [][SingleNext]_vars

\* ------------------------------------------------ the batting state alone
\* A scorecard is there.
ScorecardGiven ==
  /\ ~batting.given /\ ops = 0 /\ detailOps = 0
  /\ \E scorecard \in Scorecards :
       Apply([World EXCEPT !.batting = [NoBatting EXCEPT !.given = TRUE,
                                                        !.scorecard = scorecard]],
             [NoEv EXCEPT !.op = "scorecardGiven"])
  /\ UNCHANGED <<initialPending, ops>>
  /\ Frame

\* battingData: organizeBattingData(scorecardData, squadData, matchData)
OrganizeBatting ==
  /\ batting.given /\ ~batting.done
  /\ Apply([World EXCEPT !.batting.done = TRUE,
                         !.batting.battingData = organizeBattingData(batting.scorecard)],
           [NoEv EXCEPT !.op = "batting"])
  /\ UNCHANGED <<initialPending, ops>>
  /\ Frame

BattingNext == ScorecardGiven \/ OrganizeBatting

BattingSpec == Init /\ [][BattingNext]_vars

\* ------------------------------------------------- the player merge alone
\* The four player lists of a match are there.
PlayersGiven ==
  /\ ~merge.given /\ ops = 0 /\ detailOps = 0
  /\ \E squad \in SquadPlayerLists, scorecard \in ScorecardPlayerLists,
        score \in ScorePlayerLists, matchData \in MatchDataPlayerLists :
       LET lists == [squad |-> squad, scorecard |-> scorecard, score |-> score,
                     matchData |-> matchData]
       IN  Apply([World EXCEPT !.merge = [given |-> TRUE, lists |-> lists,
                                          original |-> lists, results |-> <<>>]],
                 [NoEv EXCEPT !.op = "playersGiven"])
  /\ UNCHANGED <<initialPending, ops>>
  /\ Frame

\* The lists are merged (once more).
MergeAgain ==
  /\ merge.given /\ Len(merge.results) < MaxMerges
  /\ LET m == MergePlayers(merge.lists)
     IN  Apply([World EXCEPT
                  !.merge.lists = [squad |-> m.squad, scorecard |-> m.scorecard,
                                   score |-> m.score, matchData |-> m.matchData],
                  !.merge.results = Append(@, AllPlayers(m))],
               [NoEv EXCEPT !.op = "merge"])
  /\ UNCHANGED <<initialPending, ops>>
  /\ Frame

MergeNext == PlayersGiven \/ MergeAgain

MergeSpec == Init /\ [][MergeNext]_vars

\* ------------------------------------------------------ the key pool alone
\* Every operation uses the pool the same way: it takes a key with getApiKey,
\* holds it during its upstream call, and then drops it, or marks it and
\* takes the next one (a rejected call), or marks it and ends (a failure
\* payload).  KeySpec follows only that, over long times.
Holding(t) == tasks[t].pc = "holding"

KeyFrame ==
  UNCHANGED <<now, apiKeys, cacheUpdateInterval, scheduler, initialPending, detailOps>>

\* apiKey = getApiKey() of an operation.
KeyAcquire(t) ==
  /\ tasks[t].pc = "idle" /\ Len(apiKeys) > 0
  /\ LET a == Acquire(World)
     IN  Apply([a.w EXCEPT !.tasks[t] = [IdleTask EXCEPT !.pc = "holding",
                                                         !.apiKey = a.key]],
               [NoEv EXCEPT !.op = "acquire", !.acquired = a.key,
                            !.afterMark = a.afterMark])
  /\ UNCHANGED ops
  /\ KeyFrame

\* markKeyAsRateLimited(apiKey); apiKey = getApiKey() (lines 284-287).
KeyMarkAndAcquire(t) ==
  /\ Holding(t) /\ ops < MaxMarks
  /\ LET a == Acquire(Mark(World, tasks[t].apiKey))
     IN  Apply([a.w EXCEPT !.tasks[t].apiKey = a.key],
               [NoEv EXCEPT !.op = "acquire", !.used = tasks[t].apiKey,
                            !.acquired = a.key, !.afterMark = a.afterMark])
  /\ ops' = ops + 1
  /\ KeyFrame

\* markKeyAsRateLimited(apiKey) and the operation ends (lines 335-340).
KeyMarkAndEnd(t) ==
  /\ Holding(t) /\ ops < MaxMarks
  /\ Apply([Mark(World, tasks[t].apiKey) EXCEPT !.tasks[t] = IdleTask],
           [NoEv EXCEPT !.op = "mark", !.used = tasks[t].apiKey])
  /\ ops' = ops + 1
  /\ KeyFrame

\* The operation ends without marking its key.
KeyDrop(t) ==
  /\ Holding(t)
  /\ Apply([World EXCEPT !.tasks[t] = IdleTask], [NoEv EXCEPT !.op = "drop"])
  /\ UNCHANGED ops
  /\ KeyFrame

\* Time passes up to the next expiry of a block, or to the millisecond
\* before it.
KeyAdvance ==
  /\ \E next \in {keyRateLimitMap[k] : k \in DOMAIN keyRateLimitMap} :
       /\ next > now
       /\ \A k \in DOMAIN keyRateLimitMap :
            keyRateLimitMap[k] > now => next <= keyRateLimitMap[k]
       /\ now' \in {t \in {next - 1, next} : t > now}
  /\ ev' = [NoEv EXCEPT !.op = "advance"]
  /\ UNCHANGED <<apiKeys, currentKeyIndex, keyRateLimitMap, lastApiCallTime, cache,
                 seriesCache, cacheUpdateInterval, scheduler, initialPending, tasks, ops,
                 detailOps, upstreamCalls, lastMarked, held, allPending, merge,
                 markedAt, batting, single>>

KeyNext ==
  \/ \E t \in Slots : KeyAcquire(t)
  \/ \E t \in Slots : KeyMarkAndAcquire(t)
  \/ \E t \in Slots : KeyMarkAndEnd(t)
  \/ \E t \in Slots : KeyDrop(t)
  \/ KeyAdvance

KeySpec == Init /\ [][KeyNext]_vars

\* ------------------------------------------------------------- claims
InFlight(fn) == {t \in Slots : tasks[t].fn = fn /\ tasks[t].pc # "idle"}
BlockedNow(key) == keyRateLimitMap[key] # 0 /\ now < keyRateLimitMap[key]
PoolKeys == {apiKeys[i] : i \in 1..Len(apiKeys)}

\* C1: at any instant at most one execution of updateCurrentMatchesCache is
\* between its busy-flag test and its cleanup, and at most one execution of
\* updateUpcomingMatchesCache.
C1_OneRefreshPerRegion ==
  \A r \in Regions : Cardinality(InFlight(r)) <= 1

\* C1 witness: a trigger found the region busy and skipped it while the one
\* refresh of that region is still in flight.
C1_Witness ==
  \E r \in Regions : r \in ev.skipped /\ Cardinality(InFlight(r)) = 1

\* C2: any two upstream calls start at least THROTTLE_DELAY (10 s) apart.
C2_CallsSpaced == ~upstreamCalls.tooClose

\* C2, the calls made at the release from the throttle gate only: two tasks
\* that entered throttleApiCall while the window of an earlier call was open
\* are not released at the same instant.
C2_GatedCallsSpaced == ~upstreamCalls.gatedTooClose

\* C3 as stated: in a pool of two or more keys, getApiKey never returns a key
\* that was marked rate-limited less than 16 minutes ago.
C3_NeverBlockedKey ==
  (Len(apiKeys) >= 2 /\ ev.acquired # NoKey) => ~BlockedNow(ev.acquired)

\* C3 amended: getApiKey returns a key marked rate-limited less than 16
\* minutes ago only when every key of the pool is blocked at that time.
C3_BlockedKeyOnlyIfAllBlocked ==
  (ev.acquired # NoKey /\ BlockedNow(ev.acquired))
    => \A k \in PoolKeys : BlockedNow(k)

\* C3 witness: with one key of a larger pool blocked, getApiKey returned a
\* key that is not blocked.
C3_Witness ==
  /\ Len(apiKeys) >= 2 /\ ev.acquired # NoKey
  /\ ~BlockedNow(ev.acquired)
  /\ \E k \in PoolKeys : BlockedNow(k)

FailedOutcome(o) == o \in {"upstreamError", "failurePayload"}

\* A refresh that ended in an upstream error or a failure payload left the
\* region's value and fetch timestamp as they were when it started.
FailedRefreshKeepsRegion ==
  (ev.op = "refreshDone" /\ FailedOutcome(ev.outcome) /\ held[ev.fn].ok)
    => /\ CacheOf(cache, ev.fn) = held[ev.fn].val
       /\ LastFetchOf(cache, ev.fn) = held[ev.fn].lastFetch

\* C4 as stated: a failed refresh leaves the region's list and timestamp
\* unchanged, and the next getCurrentMatches() / getUpcomingMatches() returns
\* exactly the entries the region held before that refresh started.
C4_FailedRefreshThenSameEntries ==
  /\ FailedRefreshKeepsRegion
  /\ (ev.getter /\ ev.expect.ok) => ev.getRet.data = DataOf(ev.expect.val)

\* C4 amended: a failed refresh leaves the region's list and timestamp
\* unchanged, and when the region held a non-empty list the next getter
\* returns exactly those entries (an empty region makes the getter run a new
\* on-demand refresh and return its result).
C4_FailedRefreshThenHeldEntries ==
  /\ FailedRefreshKeepsRegion
  /\ (ev.getter /\ ev.expect.ok /\ DataOf(ev.expect.val) # <<>>)
       => ev.getRet.data = DataOf(ev.expect.val)

\* C4 witness: a getter returned after a failed refresh of a region that held
\* entries.
C4_Witness ==
  ev.getter /\ ev.expect.ok /\ DataOf(ev.expect.val) # <<>>

\* C5: getCurrentMatches() and getUpcomingMatches() never return null or
\* undefined; what they return is an object with a list.
C5_GettersReturnLists ==
  ev.getter => /\ ev.getRet.tag = "obj"
               /\ DOMAIN ev.getRet.data = 1..Len(ev.getRet.data)

\* C5 witness: the getter returned although the refresh it called returned
\* nothing, a refresh of the same region being in flight.
C5_Witness ==
  ev.getter /\ ev.fn \in ev.skipped /\ InFlight(ev.fn) # {}

\* C6: a region whose busy flag is set always gets it cleared again.
C6_BusyFlagCleared ==
  \A r \in Regions : IsBusy(cache, r) ~> ~IsBusy(cache, r)

\* C6 witness: a refresh threw out of its own catch block and the flag is clear.
C6_Witness ==
  ev.op = "refreshDone" /\ ev.thrown # "none" /\ ~IsBusy(cache, ev.fn)

\* C7: a refresh of a list region never throws to its caller.
C7_RefreshNeverThrows ==
  ev.op = "refreshDone" => ev.thrown = "none"

\* C8: one operation makes at most as many upstream calls in one rotation
\* loop as there are configured keys, and every operation ends.
C8_CallsBoundedByKeys ==
  /\ [](\A t \in Slots : tasks[t].calls <= Len(apiKeys))
  /\ \A t \in Slots : (tasks[t].pc # "idle") ~> (tasks[t].pc = "idle")

\* C8 witness: the last key of a pool of two or more was rate-limited too.
C8_Witness ==
  /\ Len(apiKeys) >= 2 /\ ev.op = "reject"
  /\ \E t \in Slots : tasks[t].pc = "retryWait" /\ tasks[t].calls = Len(apiKeys)

MarkedNow(key) == key # NoKey /\ keyRateLimitMap[key] = now + BLOCK_DURATION
Retrying(fn, key) ==
  \E t \in Slots : tasks[t].fn = fn /\ tasks[t].pc = "retryWait" /\ tasks[t].apiKey = key

C10_TickStartsIffSomeKeyFree ==
  [][ev'.op = "tick" =>
       /\ ev'.started <=> (\E k \in PoolKeys : ~BlockedNow(k))
       /\ ev'.started => \A r \in Regions : IsBusy(cache', r)
       /\ ~ev'.started =>
            UNCHANGED <<cache, seriesCache, keyRateLimitMap, currentKeyIndex,
                        lastApiCallTime, upstreamCalls, tasks, held>>]_vars

\* C10 witness: a tick was skipped with every key of a non-empty pool blocked.
C10_Witness ==
  ev.op = "tick" /\ ~ev.started /\ Len(apiKeys) >= 1

DetailsCached == Truthy(cache.matchDetails.data)
ExtraStages == {"squad", "scorecard", "alt"}
DetailsFailed(o) == o \in {"upstreamError", "configError", "failurePayload"}

\* C12: a getMatchDetails call made while the cache holds an entry for the id,
\* fresh or older than five minutes, returns the entry's value at once: it
\* starts no fetch, so it neither waits on the throttle nor calls upstream,
\* and it leaves the cache, the key pool and the throttle as they were.
C12_CachedEntryReturnedUntouched ==
  [][(detailOps' = detailOps + 1 /\ DetailsCached)
       => /\ ev'.op = "detailsDone" /\ ev'.thrown = "none"
          /\ ev'.ret = cache.matchDetails.data
          /\ UNCHANGED <<cache, seriesCache, tasks, upstreamCalls, lastApiCallTime,
                         currentKeyIndex, keyRateLimitMap>>]_vars

\* C12 witness: a call returned an entry older than five minutes.
C12_Witness ==
  /\ ev.op = "detailsDone" /\ ev.outcome = "stale"
  /\ now - cache.matchDetails.timestamp >= MATCH_DETAILS_CACHE_DURATION
  /\ ev.ret = cache.matchDetails.data

\* C13: when the getMatchDetails pipeline throws, the call returns the entry
\* the cache holds for the id at that moment, if any, and throws to its
\* caller only when the cache holds none.
C13_ThrowReturnsEntryIfAny ==
  (ev.op = "detailsDone" /\ ev.outcome \in {"upstreamError", "configError"})
    => IF DetailsCached
       THEN ev.thrown = "none" /\ ev.ret = cache.matchDetails.data
       ELSE ev.thrown # "none"

\* C13 witness: the match_info fetch of a call threw after a concurrent call
\* had stored an entry, and the call returned that entry.
C13_Witness ==
  /\ ev.op = "detailsDone" /\ ev.outcome = "upstreamError"
  /\ DetailsCached /\ ev.ret = cache.matchDetails.data /\ ev.thrown = "none"

C15_FailedFetchKeepsEntry ==
  [][(/\ DetailsCached /\ cache.matchDetails.data.status = "success"
      /\ ev'.op = "detailsDone" /\ DetailsFailed(ev'.outcome))
       => /\ cache'.matchDetails = cache.matchDetails
          /\ ev'.ret = cache.matchDetails.data]_vars

\* -------------------------------------------------- in-flight fetches, series
\* C16: at any instant at most one getMatchDetails fetch for the id and at
\* most one getSeriesList fetch is between its cache test and its return.
C16_OneFetchPerRegion ==
  \A fn \in {"details", "series"} : Cardinality(InFlight(fn)) <= 1

\* C17: a getSeriesList call whose fetch fails, by a thrown error or by a
\* failure payload, returns the cached series value if there is one, and
\* throws only if there is none.
C17_FailedSeriesReturnsCached ==
  (ev.op = "seriesDone" /\ DetailsFailed(ev.outcome))
    => /\ Truthy(seriesCache.data)
            => ev.thrown = "none" /\ ev.ret = seriesCache.data
       /\ ev.thrown # "none" => ~Truthy(seriesCache.data)

\* -------------------------------------------------------- getAllMatches
IsList(x) == DOMAIN x = 1..Len(x)
Unrecognised(v) == v.tag \notin {"obj", "array", "matches", "results"}
HalfFailed(how) == how \in {"upstreamError", "failurePayload", "configError"}

\* C18: getAllMatches never throws and returns a record whose live and
\* upcoming fields are lists; the list of a half whose on-demand refresh
\* failed, or whose value has none of the shapes extractMatches knows, is empty.
C18_AllMatchesAlwaysLists ==
  ev.all.done
    => /\ ev.all.thrown = "none"
       /\ IsList(ev.all.live) /\ IsList(ev.all.upcoming)
       /\ (HalfFailed(ev.all.how.current) \/ Unrecognised(ev.all.liveMatches))
            => ev.all.live = <<>>
       /\ (HalfFailed(ev.all.how.upcoming) \/ Unrecognised(ev.all.upcomingMatches))
            => ev.all.upcoming = <<>>

\* C18 witness: a getAllMatches call returned after the refresh of its live
\* half failed and the refresh of its upcoming half stored matches.
C18_Witness ==
  /\ ev.all.done /\ ev.op = "refreshDone"
  /\ HalfFailed(ev.all.how.current) /\ ev.all.live = <<>>
  /\ ev.all.how.upcoming = "stored" /\ ev.all.upcoming # <<>>

\* ------------------------------------------------------- classification
Range(list) == {list[i] : i \in 1..Len(list)}
Stored == ev.op = "refreshDone" /\ ev.outcome = "stored"
Kept == CacheOf(cache, ev.fn).data
CapOf(r) == IF r = "current" THEN 10 ELSE 20
Min(a, b) == IF a < b THEN a ELSE b
\* The classes as the specification words them.
LiveOrEndedWithScore(m) ==
  \/ m.matchStarted /\ ~m.matchEnded
  \/ m.matchStarted /\ m.matchEnded /\ m.score # <<>>
NotStarted(m) == m.matchStarted = FALSE
InClass(r, m) == IF r = "current" THEN LiveOrEndedWithScore(m) ELSE NotStarted(m)
\* The positions of the raw list whose match is not started.
NotStartedAt(raw) == {j \in 1..Len(raw) : NotStarted(raw[j])}
\* The i-th of them.
NthNotStarted(raw, i) ==
  CHOOSE j \in NotStartedAt(raw) :
    Cardinality({k \in NotStartedAt(raw) : k <= j}) = i

\* C19: after a successful refresh the region holds only matches of the raw
\* list that are in its class (Current: started and not ended, or started and
\* ended with a non-empty score; Upcoming: started = false), and every match
\* of the class unless the region is filled up to its cap; no match of the raw
\* list is in both classes.
C19_RegionHoldsItsClass ==
  Stored
    => /\ \A m \in Range(Kept) : m \in Range(ev.raw) /\ InClass(ev.fn, m)
       /\ \A m \in Range(ev.raw) :
            InClass(ev.fn, m) => m \in Range(Kept) \/ Len(Kept) = CapOf(ev.fn)
       /\ Range(ClassifyCurrent(ev.raw)) \cap Range(ClassifyUpcoming(ev.raw)) = {}
       /\ \A m \in Range(ev.raw) : ~(LiveOrEndedWithScore(m) /\ NotStarted(m))

\* C19 witness: a successful refresh of Current whose raw list had matches of
\* all four kinds, some kept and some not.
C19_Witness ==
  /\ Stored /\ ev.fn = "current" /\ Kept # <<>> /\ Len(Kept) < CapOf("current")
  /\ \E m \in Range(ev.raw) : NotStarted(m)
  /\ \E m \in Range(ev.raw) : m.matchStarted /\ m.matchEnded /\ m.score = <<>>
  /\ \E m \in Range(Kept) : m.matchEnded

\* C20: after a successful Upcoming refresh the region holds the first
\* min(20, k) of the k not-started matches of the raw list, in the order of
\* the raw list; after a successful Current refresh the region holds
\* min(10, q) of the q matches of its class, no match left out is later than
\* a match kept, and the matches kept are in descending order of time.
C20_RegionCappedAndOrdered ==
  Stored
    => IF ev.fn = "upcoming"
       THEN /\ Len(Kept) = Min(20, Cardinality(NotStartedAt(ev.raw)))
            /\ \A i \in 1..Len(Kept) : Kept[i] = ev.raw[NthNotStarted(ev.raw, i)]
       ELSE LET class == {m \in Range(ev.raw) : LiveOrEndedWithScore(m)}
            IN  /\ Len(Kept) = Min(10, Cardinality(class))
                /\ Range(Kept) \subseteq class
                /\ Cardinality(Range(Kept)) = Len(Kept)
                /\ \A i, j \in 1..Len(Kept) :
                     i < j => DateOf(Kept[i]) >= DateOf(Kept[j])
                /\ \A m \in class \ Range(Kept) :
                     \A i \in 1..Len(Kept) : DateOf(Kept[i]) >= DateOf(m)

\* C20 witness: a successful Upcoming refresh whose raw list had 25
\* not-started matches left 20 in the region.
C20_Witness ==
  /\ Stored /\ ev.fn = "upcoming"
  /\ Cardinality(NotStartedAt(ev.raw)) = 25 /\ Len(Kept) = 20

\* A successful Current refresh with more than ten matches of the class kept ten.
CurrentCapReached ==
  /\ Stored /\ ev.fn = "current" /\ Len(Kept) = 10
  /\ Cardinality({m \in Range(ev.raw) : LiveOrEndedWithScore(m)}) > 10

\* --------------------------------------------------------- player merge
\* C21: merging the same four player lists again gives the same players with
\* the same field values, and the merge leaves the lists as they were given.
C21_MergeRepeatable ==
  /\ \A i, j \in 1..Len(merge.results) : merge.results[i] = merge.results[j]
  /\ merge.lists = merge.original

\* C21 witness: the lists were merged twice, and a player of the result was
\* merged from an entry two lists have under names that differ in case.
C21_Witness ==
  /\ Len(merge.results) = 2 /\ Len(merge.results[2]) >= 2
  /\ \E i \in 1..Len(merge.lists.squad), j \in 1..Len(merge.lists.scorecard) :
       /\ merge.lists.squad[i].name # merge.lists.scorecard[j].name
       /\ Lower(merge.lists.squad[i].name) = Lower(merge.lists.scorecard[j].name)
  /\ \E k \in 1..Len(merge.results[2]) :
       merge.results[2][k].image = "kohli.png" /\ merge.results[2][k].runs = "50"

\* ---------------------------------------------- throttle within one task
\* C22: when a task makes a call after a throttle wait and has made one after
\* an earlier throttle wait, the second starts at least THROTTLE_DELAY after
\* the first.
C22_SameTaskGatedCallsSpaced ==
  (ev.op = "call" /\ ev.gap # -1) => ev.gap >= THROTTLE_DELAY

\* C22 witness: getMatchDetails starts the call for a later endpoint exactly
\* THROTTLE_DELAY after the start of its call for the endpoint before.
C22_Witness ==
  /\ ev.op = "call" /\ ev.fn = "details" /\ ev.gap = THROTTLE_DELAY
  /\ \E t \in Slots : tasks[t].pc = "http" /\ tasks[t].stage \in {"squad", "scorecard", "alt"}

\* ------------------------------------------------------- block duration
SixteenMinutes == 16 * 60 * 1000

C23_WitnessBefore ==
  /\ ev.op = "acquire" /\ ev.acquired # NoKey
  /\ \E k \in DOMAIN markedAt :
       /\ k # ev.acquired /\ markedAt[k] # 0
       /\ now = markedAt[k] + SixteenMinutes - 1 /\ BlockedNow(k)

\* ---------------------------------------------------- transport failures
\* C24: a rejected call whose error is a timeout ("timeout of 30000ms
\* exceeded") or a connection reset marks no key and is followed by no
\* getApiKey() for a retry.
C24_TransportFailureIsOtherFailure ==
  (ev.op = "reject" /\ ev.error \in {"timeout", "reset"})
    => ~MarkedNow(ev.used) /\ ev.acquired = NoKey

\* ------------------------------------------------------------ no keys
\* C25: with no key configured no upstream call is ever made, and a
\* getMatchDetails or getSeriesList call (nothing can be cached) ends by
\* throwing the error "CRICKET_API_KEY is not configured".
C25_NoKeyNoCall ==
  Len(apiKeys) = 0 =>
    /\ upstreamCalls.last = 0
    /\ \A t \in Slots : tasks[t].pc # "http"
    /\ ev.op \in {"detailsDone", "seriesDone"} =>
          ev.thrown = "notConfigured" /\ ev.outcome = "configError"

\* C25 witness: with no key configured and nothing cached a getMatchDetails
\* call has ended by throwing.
C25_Witness ==
  /\ Len(apiKeys) = 0 /\ ev.op = "detailsDone" /\ ev.thrown # "none"
  /\ ~DetailsCached

\* C25 witness: the same for getSeriesList.
C25_WitnessSeries ==
  /\ Len(apiKeys) = 0 /\ ev.op = "seriesDone" /\ ev.thrown # "none"
  /\ ~Truthy(seriesCache.data)

\* ------------------------------------------------- getters on a full region
\* C26: getCurrentMatches() / getUpcomingMatches() called while the region
\* holds a non-empty list returns that list at once, starts no refresh (so no
\* throttle wait and no upstream call) and leaves the busy flags, the key
\* pool and the throttle timestamp as they were.
C26_FullRegionServedUntouched ==
  [][\A r \in Regions :
       (/\ ev'.op = "get" /\ ev'.fn = r
        /\ cache[r].tag = "obj" /\ Len(cache[r].data) > 0)
         => /\ ev'.getter /\ ~ev'.started /\ ev'.getRet = cache[r]
            /\ UNCHANGED <<cache, tasks, upstreamCalls, lastApiCallTime,
                           currentKeyIndex, keyRateLimitMap, markedAt>>]_vars

\* C26 witness: a getter returned the non-empty list of its region while a
\* refresh of that region was in flight.
C26_Witness ==
  /\ ev.op = "get" /\ ev.getter /\ ev.fn \in Regions
  /\ Len(ev.getRet.data) > 0 /\ ev.getRet = cache[ev.fn]
  /\ IsBusy(cache, ev.fn)

\* ------------------------------------------------ retries and the throttle
\* C27: within one refresh a retry after a rate-limited rejection calls
\* upstream at least THROTTLE_DELAY after the attempt before it.
C27_RetryAfterThrottleDelay ==
  (ev.op = "retry" /\ ev.fn \in Regions /\ ev.gap # -1)
    => ev.gap >= THROTTLE_DELAY

\* ------------------------------------------------- getApiKey by reference
\* The reference for getApiKey: the positions at distance 0, 1, ... from the
\* cursor, wrapping around, whose key has no blockedUntil or one that is not
\* in the future; the nearest of them, or the cursor when there is none.
FreeDistances(keys, idx, map, t) ==
  {d \in 0..(Len(keys) - 1) :
     LET k == keys[((idx + d) % Len(keys)) + 1]
     IN  map[k] = 0 \/ map[k] <= t}
AcquireReference(keys, idx, map, t) ==
  IF keys = <<>> THEN [key |-> NoKey, idx |-> idx]
  ELSE LET free == FreeDistances(keys, idx, map, t)
       IN  IF free = {} THEN [key |-> keys[idx + 1], idx |-> idx]
           ELSE LET d == CHOOSE x \in free : \A y \in free : x <= y
                    at == (idx + d) % Len(keys)
                IN  [key |-> keys[at + 1], idx |-> at]

\* C28: getApiKey equals the reference at every cursor position of every
\* pool state reached, it returns no key exactly when the pool is empty, and
\* a getApiKey() an operation makes returns the reference's key and leaves
\* the cursor where the reference leaves it.
C28_GetApiKeyEqualsReference ==
  [][
    /\ \A idx \in 0..Len(apiKeys) :
         (idx < Len(apiKeys) \/ apiKeys = <<>>) =>
           /\ getApiKey(apiKeys, idx, keyRateLimitMap, now)
                = AcquireReference(apiKeys, idx, keyRateLimitMap, now)
           /\ (getApiKey(apiKeys, idx, keyRateLimitMap, now).key = NoKey)
                <=> (apiKeys = <<>>)
    /\ (ev'.op = "acquire" /\ ev'.used = NoKey) =>
         LET ref == AcquireReference(apiKeys, currentKeyIndex, keyRateLimitMap, now)
         IN  ev'.acquired = ref.key /\ currentKeyIndex' = ref.idx
  ]_vars

\* C28 witness: with the cursor on the blocked last key of the pool,
\* getApiKey wrapped around, returned the first key and left the cursor there.
C28_Witness ==
  /\ Len(apiKeys) >= 2 /\ ev.op = "acquire" /\ ev.used = NoKey
  /\ BlockedNow(apiKeys[Len(apiKeys)]) /\ markedAt[apiKeys[1]] # 0
  /\ ev.acquired = apiKeys[1] /\ currentKeyIndex = 0 /\ ~BlockedNow(apiKeys[1])

\* C28 witness: every key is blocked and getApiKey returned the key under
\* the cursor.
C28_WitnessAllBlocked ==
  /\ Len(apiKeys) >= 2 /\ ev.op = "acquire"
  /\ \A k \in PoolKeys : BlockedNow(k)
  /\ ev.acquired = apiKeys[currentKeyIndex + 1]

\* ------------------------------------------------- cursor after a marking
\* C29: in a pool of two or more keys the cursor is not on key c right after
\* markKeyAsRateLimited(c).
C29_CursorOffMarkedKey ==
  (Len(apiKeys) >= 2 /\ ev.op = "mark")
    => apiKeys[currentKeyIndex + 1] # ev.used

\* ------------------------------------------------- one attempt per key
\* C30: within one refresh no key is attempted twice: a retry never calls
\* upstream with a key the same refresh has called upstream with before.
C30_NoKeyAttemptedTwice ==
  (ev.op = "retry" /\ ev.fn \in Regions) => ~ev.again

C31_WitnessClearCache ==
  /\ ev.op = "clearCache" /\ \E k \in PoolKeys : BlockedNow(k)

\* ------------------------------------------- precedence in the player merge
Named(p) == p.name \notin {Absent, "undefined", "null", ""}
WithKey(players, key) ==
  LET Has(p) == Named(p) /\ Lower(p.name) = key
  IN  SelectSeq(players, Has)
KeysOf(players) == {Lower(players[i].name) : i \in {j \in 1..Len(players) : Named(players[j])}}
LastOf(players) == players[Len(players)]
Populated(v) == v \notin {Absent, "undefined", "null"}

\* C32: a player of the squad list has in the merged list the image and the
\* role the squad list gives, whatever the other lists hold under the name.
C32_SquadImageAndRoleKept ==
  \A n \in 1..Len(merge.results) :
    \A key \in KeysOf(merge.original.squad) :
      LET squad == LastOf(WithKey(merge.original.squad, key))
          found == WithKey(merge.results[n], key)
      IN  /\ Len(found) = 1
          /\ found[1].image = squad.image /\ found[1].role = squad.role

\* The players the first three lists hold under a key, in merge order.
Supplied(lists, key) ==
  WithKey(lists.squad, key) \o WithKey(lists.scorecard, key) \o WithKey(lists.score, key)
WithRuns(players) ==
  LET Has(p) == Populated(p.runs)
  IN  SelectSeq(players, Has)
GivingRuns(players) ==
  LET Has(p) == p.runs # Absent
  IN  SelectSeq(players, Has)

\* C33 as stated: the runs of a merged player are the runs of the first list,
\* in merge order, that has the player with runs.
C33_FirstSourceKept ==
  \A n \in 1..Len(merge.results) :
    \A key \in KeysOf(merge.original.squad \o merge.original.scorecard
                      \o merge.original.score) :
      LET with == WithRuns(Supplied(merge.original, key))
      IN  with # <<>> => WithKey(merge.results[n], key)[1].runs = with[1].runs

\* C33 amended: the runs of a merged player are those of the last player
\* object, in merge order over squad, scorecard and score, that has a runs
\* property under the name, an undefined one included; a player of match_info
\* changes nothing of a player already merged.
C33_LastSourceWins ==
  \A n \in 1..Len(merge.results) :
    \A key \in KeysOf(merge.original.squad \o merge.original.scorecard
                      \o merge.original.score) :
      LET giving == GivingRuns(Supplied(merge.original, key))
          found == WithKey(merge.results[n], key)
      IN  /\ Len(found) = 1
          /\ found[1].runs = IF giving = <<>> THEN Absent ELSE LastOf(giving).runs

\* C33 witness: the scorecard and the score give different runs for a
\* player and the merged player has the runs of the score.
C33_Witness ==
  /\ Len(merge.results) >= 1
  /\ \E key \in KeysOf(merge.original.scorecard) \cap KeysOf(merge.original.score) :
       LET a == LastOf(WithKey(merge.original.scorecard, key))
           b == LastOf(WithKey(merge.original.score, key))
       IN  /\ Populated(a.runs) /\ a.runs # b.runs
           /\ WithKey(merge.results[1], key)[1].runs = b.runs

\* ------------------------------------------------------ dismissed batsmen
\* The dismissed batsmen of the chosen inning in the order of dismissal.
DismissedOf(inning) ==
  LET IsOut(e) == e.name # 0 /\ e.dismissal
  IN  SelectSeq(inning, IsOut)
Reversed(list) == [i \in 1..Len(list) |-> list[Len(list) + 1 - i]]

\* C34: the dismissed list of the batting state has at most five batsmen,
\* and when the chosen inning has more than five dismissed batsmen they are
\* the five dismissed last, the last one first.
C34_LastFiveDismissedFirst ==
  (batting.done /\ batting.battingData.tag = "obj") =>
    LET shown == batting.battingData.dismissedBatsmen
        out == DismissedOf(batting.scorecard[batting.battingData.inning])
    IN  /\ Len(shown) <= 5
        /\ Len(out) > 5 => shown = Reversed(SliceLast(out, 5))

\* ------------------------------------- the service with one key: details
\* C35: in the service with one key, a getMatchDetails call that fetches
\* again for an entry older than five minutes holding a successfully fetched
\* value, and gets a failure payload for match_info, leaves the entry as it
\* was.
C35_SingleFailedRefetchKeepsEntry ==
  [][\A c \in SingleCalls :
       (/\ single.calls[c].refetch /\ single'.calls[c].pc = "idle"
        /\ single.entry.data.status = "success"
        /\ ev'.op = "singleDone" /\ ev'.outcome = "failurePayload")
         => /\ single'.entry = single.entry
            /\ ev'.ret = single.entry.data]_vars

\* -------------------------------------------- the match details cache
\* C36: every value held by the match details cache is a match_info payload
\* with status success; a failure payload is never stored.
C36_OnlySuccessCached ==
  DetailsCached => cache.matchDetails.data.status = "success"

\* ------------------------------------- getters after a successful refresh
\* A refresh started by a getter calls upstream: task t enters "http".
GetterCalls(t) ==
  /\ tasks[t].origin \in {"query", "all"} /\ tasks[t].fn \in Regions
  /\ tasks'[t].fn = tasks[t].fn /\ tasks'[t].calls > tasks[t].calls

\* The getter of task t was called after a refresh of its region had
\* succeeded, and the cache has not been cleared since.
AfterSuccess(t) ==
  /\ tasks[t].snap.lastFetch # 0
  /\ LastFetchOf(cache, tasks[t].fn) # 0

\* C37 as stated: once a refresh of a list region has succeeded,
\* getCurrentMatches() / getUpcomingMatches() make no upstream call until the
\* cache is cleared, also when the refresh stored an empty list.
C37_NoCallAfterSuccess ==
  [][\A t \in Slots : ~(GetterCalls(t) /\ AfterSuccess(t))]_vars

\* C37 amended: once a refresh of a list region has succeeded, a getter
\* calls upstream before the cache is cleared only when the region held an
\* empty list at the time the getter was called.
C37_CallAfterSuccessOnlyIfEmpty ==
  [][\A t \in Slots :
       (GetterCalls(t) /\ AfterSuccess(t))
         => /\ tasks[t].snap.val.tag = "obj"
            /\ tasks[t].snap.val.data = <<>>]_vars

\* C37 witness: a refresh started by a getter is calling upstream for a
\* region in which a successful refresh had stored an empty list.
C37_Witness ==
  \E t \in Slots :
    /\ tasks[t].origin \in {"query", "all"} /\ tasks[t].fn \in Regions
    /\ tasks[t].pc = "http" /\ tasks[t].snap.lastFetch # 0
    /\ tasks[t].snap.val.data = <<>>
    /\ LastFetchOf(cache, tasks[t].fn) # 0

\* C37 witness: a getter returned the non-empty list stored by a successful
\* refresh and started nothing.
C37_WitnessServed ==
  /\ ev.op = "get" /\ ev.getter /\ ~ev.started /\ ev.fn \in Regions
  /\ LastFetchOf(cache, ev.fn) # 0 /\ Len(ev.getRet.data) > 0
  /\ InFlight(ev.fn) = {}

\* ------------------------------------------------ the stopped scheduler
\* C38: while the scheduler is stopped (stopCacheUpdater() has returned and
\* startCacheUpdater() has not been called since) neither the periodic timer
\* nor an initial refresh fires, and at any time at most one periodic timer
\* is active.
C38_StoppedSchedulerFiresNothing ==
  /\ [][~cacheUpdateInterval => ev'.op \notin {"initial", "tick"}]_vars
  /\ [](scheduler.intervals <= 1)

\* --------------------------------------- list regions and fetch timestamps
\* C39: in every reachable state a list region's fetch timestamp is set
\* exactly when the region holds a value: cache.current is null exactly when
\* lastFetch.current is null, and the same for upcoming.
C39_TimestampIffValue ==
  \A r \in Regions : (CacheOf(cache, r) = Null) <=> (LastFetchOf(cache, r) = 0)

\* C39 witness: a failed refresh ended for a region that holds a stored list
\* and its timestamp, the other region holding neither.
C39_Witness ==
  /\ ev.op = "refreshDone" /\ FailedOutcome(ev.outcome)
  /\ Truthy(CacheOf(cache, ev.fn)) /\ LastFetchOf(cache, ev.fn) # 0
  /\ \E r \in Regions : CacheOf(cache, r) = Null /\ LastFetchOf(cache, r) = 0

\* C39 witness: a successful refresh stored an empty list with its timestamp.
C39_WitnessEmptyList ==
  /\ ev.op = "refreshDone" /\ ev.outcome = "stored"
  /\ CacheOf(cache, ev.fn) = Obj(<<>>) /\ LastFetchOf(cache, ev.fn) = now

\* C39 witness: clearCache() ran after upstream had been called and left
\* both regions without value and timestamp.
C39_WitnessCleared ==
  /\ ev.op = "clearCache" /\ upstreamCalls.last # 0
  /\ \A r \in Regions : CacheOf(cache, r) = Null /\ LastFetchOf(cache, r) = 0

=============================================================================
